---- MODULE Spec2Model ----
(***************************************************************************)
(* A model of the EasyAds rule scripts: the classifier of merge.py, the    *)
(* whitelist filter of filter-ad.py and the DNS validators of dns.py and   *)
(* filter-dns.py.                                                          *)
(*                                                                         *)
(* Text.  A line is a sequence of tokens; a token is a fixed run of        *)
(* characters ("||", "ads", ".", "$third-party", ...).  Every string of    *)
(* the model has exactly one tokenisation, and every string operation of   *)
(* the scripts (strip, lower, startswith, the regular expressions) cuts a  *)
(* line only between tokens, so it is modelled token by token.             *)
(***************************************************************************)
EXTENDS Integers, Sequences, FiniteSets, TLC

----------------------------------------------------------------------------
(* Bounds *)

\* total number of lines over all input files of merge.py
MaxTotalLines == 3
\* number of lines of allow.txt and of dns.txt for filter-ad.py
MaxAllowLines == 2
MaxDnsLines == 2
\* number of domains in the batch dns.py validates
MaxBatch == 2
\* number of lines of the input file of clash.py
MaxClashLines == 2
\* number of lines of the input file of filter-dns.py
MaxFdLines == 2
\* the largest BATCH_SIZE of filter-dns.py, scaled down to the input of the
\* model
BatchSize == 2
\* number of threads of a worker pool
NumThreads == 2
\* the last tick of the clock
MaxTime == 2
\* number of lines of the rule file dns.py rewrites
MaxPfLines == 3
\* number of URLs in the list adblock of dl.py
MaxUrls == 2

----------------------------------------------------------------------------
(* Characters and tokens *)

\* \s
SpaceToks == {" "}
\* tokens made of lower-case letters only, at least two of them
LowerAlphaToks == {"ads", "example", "com", "sub", "cdn", "qq"}
\* tokens made of letters only, at least two of them
AlphaToks == LowerAlphaToks \cup {"Ads"}
\* tokens made of digits only
DigitToks == {"1"}
\* dotted quads: \d+\.\d+\.\d+\.\d+
Ip4Toks == {"0.0.0.0", "127.0.0.1", "1.2.3.4"}
\* tokens whose first character is "$"
DollarToks == {"$third-party"}
\* [\w.-]: letters, digits, underscore, dot, dash
WordDotDashToks == AlphaToks \cup DigitToks \cup Ip4Toks \cup {".", "-"}

\* str.lower() of one token
LowerTok(t) ==
    CASE t = "Ads" -> "ads"
      [] t = "[Adblock" -> "[adblock"
      [] OTHER -> t

\* str.lower()
Lower(s) == [i \in 1..Len(s) |-> LowerTok(s[i])]

\* the tokens in the order of their lower-cased text (ASCII)
TokOrder ==
    << " ", "!", "#", "$third-party", "*", "-", ".", "/", "0.0.0.0", "1",
       "1.2.3.4", "127.0.0.1", "::", "@@", "[adblock", "]", "^", "ads", "cdn",
       "com", "example", "qq", "sub", "||" >>

TokRank(t) == CHOOSE i \in 1..Len(TokOrder) : TokOrder[i] = t

RECURSIVE SeqLess(_, _)
\* a < b for two lower-cased strings
SeqLess(a, b) ==
    IF b = <<>> THEN FALSE
    ELSE IF a = <<>> THEN TRUE
    ELSE IF a[1] # b[1] THEN TokRank(a[1]) < TokRank(b[1])
    ELSE SeqLess(Tail(a), Tail(b))

\* str.startswith(tok)
StartsWith(s, tok) == Len(s) >= 1 /\ s[1] = tok

RECURSIVE LStrip(_)
LStrip(s) == IF s # <<>> /\ s[1] \in SpaceToks THEN LStrip(Tail(s)) ELSE s

RECURSIVE RStrip(_)
RStrip(s) ==
    IF s # <<>> /\ s[Len(s)] \in SpaceToks THEN RStrip(SubSeq(s, 1, Len(s) - 1))
    ELSE s

\* str.strip()
Strip(s) == RStrip(LStrip(s))

RECURSIVE RunLen(_, _)
\* the length of the longest prefix of s made of tokens of the class cls
RunLen(s, cls) ==
    IF s # <<>> /\ s[1] \in cls THEN 1 + RunLen(Tail(s), cls) ELSE 0

\* s[n:] on tokens
Drop(s, n) == SubSeq(s, n + 1, Len(s))

\* s[:n] on tokens
Take(s, n) == SubSeq(s, 1, n)

----------------------------------------------------------------------------
(* The lines the input files are made of *)

Domain1 == <<"ads", ".", "example", ".", "com">>
Domain1Mixed == <<"Ads", ".", "example", ".", "com">>

BlockLine == <<"||">> \o Domain1 \o <<"^">>
BlockLineMixed == <<"||">> \o Domain1Mixed \o <<"^">>
BlockLineModifier == <<"||">> \o Domain1 \o <<"^", "$third-party">>
AllowLine == <<"@@", "||">> \o Domain1 \o <<"^">>
HostsLine == <<"0.0.0.0", " ">> \o Domain1
HostsLineOtherIp == <<"1.2.3.4", " ">> \o Domain1
CommentLine == <<"!", " ", "ads">>

LineUniverse ==
    { BlockLine, BlockLineMixed, BlockLineModifier, AllowLine, HostsLine,
      HostsLineOtherIp, CommentLine }

\* a domain below Domain1, and one that shares no suffix with it
SubDomain1 == <<"sub", ".">> \o Domain1
OtherDomain == <<"cdn", ".", "example", ".", "com">>
BlockLineSub == <<"||">> \o SubDomain1 \o <<"^">>
BlockLineOther == <<"||">> \o OtherDomain \o <<"^">>
\* an allow-list entry written without the '@@' of the allow syntax
BareAllowLine == <<"||">> \o Domain1 \o <<"^">>

\* a rule whose domain has an empty label: ||ads..com^
EmptyLabelDomain == <<"ads", ".", ".", "com">>
BlockLineEmptyLabel == <<"||">> \o EmptyLabelDomain \o <<"^">>

\* an allow-list entry for a whole top-level domain: ||com^
TldAllowLine == <<"||", "com", "^">>
\* block rules four and five labels below "com":
\* ||sub.cdn.ads.example.com^ and ||qq.sub.cdn.ads.example.com^
BlockLineFourBelow == <<"||", "sub", ".", "cdn", ".">> \o Domain1 \o <<"^">>
BlockLineFiveBelow == <<"||", "qq", ".", "sub", ".", "cdn", ".">> \o Domain1 \o <<"^">>

\* the lines of allow.txt and of dns.txt for filter-ad.py
FaAllowUniverse ==
    {AllowLine, BareAllowLine, TldAllowLine, BlockLineMixed, Domain1, CommentLine}
FaBlockUniverse ==
    {BlockLine, BlockLineSub, BlockLineOther, BlockLineModifier, BlockLineMixed,
     BlockLineFourBelow, BlockLineFiveBelow, CommentLine}

\* ||ads.example.com$third-party, *.ads.example.com^ and
\* *.ads.example.com$third-party
BlockLineDollar == <<"||">> \o Domain1 \o <<"$third-party">>
WildcardLine == <<"*", ".">> \o Domain1 \o <<"^">>
WildcardLineDollar == <<"*", ".">> \o Domain1 \o <<"$third-party">>

\* allow rules whose remaining text is itself an allow rule, or begins with
\* a blank: @@@@||ads.example.com^ and '@@ ||ads.example.com^'
AllowAllowLine == <<"@@">> \o AllowLine
AllowBlankLine == <<"@@", " ">> \o BlockLine

\* the lines of dns.txt for clash.py
ClashLineUniverse ==
    {BlockLine, BlockLineMixed, BlockLineModifier, BlockLineDollar, WildcardLine,
     WildcardLineDollar, AllowLine, CommentLine, Domain1,
     <<"@@">> \o WildcardLine, <<"@@">> \o Domain1, AllowAllowLine,
     AllowBlankLine}

\* the lines of the input file of filter-dns.py
FdLineUniverse ==
    {BlockLine, BlockLineModifier, BlockLineEmptyLabel, HostsLine, AllowLine}

RECURSIVE SeqsUpTo(_, _)
\* the sequences over S of length at most n
SeqsUpTo(S, n) ==
    IF n = 0 THEN {<<>>}
    ELSE LET shorter == SeqsUpTo(S, n - 1)
         IN  shorter \cup {Append(q, x) : q \in {r \in shorter : Len(r) = n - 1}, x \in S}

RECURSIVE Orders(_)
\* the orders of the elements of the set S
Orders(S) ==
    IF S = {} THEN {<<>>}
    ELSE UNION {{<<x>> \o p : p \in Orders(S \ {x})} : x \in S}

\* the rearrangements of the sequence s
SeqPermutations(s) ==
    {[i \in 1..Len(s) |-> s[p[i]]] : p \in Orders(1..Len(s))}

----------------------------------------------------------------------------
(* merge.py: UltimateRuleProcessor *)

VARIABLES
    config,        \* self.config
    files,         \* the input directory: file name -> its lines
    unreadable,    \* the input files whose open() raises PermissionError
    pending,       \* the input files process_files has not visited yet
    black_rules,   \* self.black_rules
    white_rules,   \* self.white_rules
    disk_adblock,  \* the lines of output/adblock.txt on disk
    disk_allow,    \* the lines of output/allow.txt on disk
    new_adblock,   \* black_content of the running _save_rules
    new_allow,     \* white_content of the running _save_rules
    merge_pc       \* where process_files stands

merge_vars ==
    << config, files, unreadable, pending, black_rules, white_rules,
       disk_adblock, disk_allow, new_adblock, new_allow, merge_pc >>

\* DEFAULT_CONFIG has no 'keep_comments' key
DEFAULT_CONFIG ==
    [ keep_hosts_syntax |-> FALSE,
      remove_duplicates |-> TRUE,
      minify_output |-> FALSE,
      validate_rules |-> TRUE,
      backup_original |-> TRUE,
      conflict_resolution |-> "whitelist_priority",
      keep_comments |-> "missing" ]

\* the configuration of the script's __main__
MainConfig ==
    [DEFAULT_CONFIG EXCEPT !.keep_hosts_syntax = TRUE, !.minify_output = TRUE]

\* DEFAULT_CONFIG | kwargs for the keyword arguments the model covers
Configs ==
    { DEFAULT_CONFIG,
      MainConfig,
      [DEFAULT_CONFIG EXCEPT !.conflict_resolution = "blacklist_priority"],
      [DEFAULT_CONFIG EXCEPT !.keep_comments = "true"],
      [DEFAULT_CONFIG EXCEPT !.backup_original = FALSE] }

\* the input files, by the glob pattern of file_types that finds them
BlackFiles == {"adblock01.txt", "adblock02.txt"}
WhiteFiles == {"allow01.txt"}
AutoFiles == {"extra.rules"}
FileNames == BlackFiles \cup WhiteFiles \cup AutoFiles

\* the position of a file's pattern in file_types
GlobGroup(f) == IF f \in BlackFiles THEN 1 ELSE IF f \in WhiteFiles THEN 2 ELSE 3

\* r'^(?:127\.0\.0\.1|0\.0\.0\.0|::)\s+([\w.-]+)' of FULL_SYNTAX['black']
HostsBlackMatch(line) ==
    LET ws == RunLen(Tail(line), SpaceToks)
        dom == RunLen(Drop(line, 1 + ws), WordDotDashToks)
    IN  IF line # <<>> /\ line[1] \in {"127.0.0.1", "0.0.0.0", "::"}
           /\ ws >= 1 /\ dom >= 1
        THEN [ok |-> TRUE, group0 |-> Take(line, 1 + ws + dom),
              group1 |-> SubSeq(line, 2 + ws, 1 + ws + dom)]
        ELSE [ok |-> FALSE, group0 |-> <<>>, group1 |-> <<>>]

\* r'^@@\d+\.\d+\.\d+\.\d+\s+([\w.-]+)' of FULL_SYNTAX['white']
HostsWhiteMatch(line) ==
    LET ws == RunLen(Drop(line, 2), SpaceToks)
        dom == RunLen(Drop(line, 2 + ws), WordDotDashToks)
    IN  IF Len(line) >= 2 /\ line[1] = "@@" /\ line[2] \in Ip4Toks
           /\ ws >= 1 /\ dom >= 1
        THEN [ok |-> TRUE, group0 |-> Take(line, 2 + ws + dom),
              group1 |-> SubSeq(line, 3 + ws, 2 + ws + dom)]
        ELSE [ok |-> FALSE, group0 |-> <<>>, group1 |-> <<>>]

\* _process_line: the two sets after the line, and whether it raised (the
\* KeyError of config['keep_comments'])
ProcessLine(raw, is_whitelist, cfg, B, W) ==
    LET line == Strip(raw)
        hb == HostsBlackMatch(line)
        hw == HostsWhiteMatch(line)
        same == [black |-> B, white |-> W, raised |-> FALSE]
    IN  IF line = <<>> THEN same
        ELSE IF StartsWith(line, "!") \/ StartsWith(line, "[Adblock")
        THEN IF cfg.keep_comments = "missing"
             THEN [same EXCEPT !.raised = TRUE]
             ELSE IF cfg.keep_comments = "true"
             THEN IF is_whitelist
                  THEN [same EXCEPT !.white = W \cup {line}]
                  ELSE [same EXCEPT !.black = B \cup {line}]
             ELSE same
        ELSE IF is_whitelist
        THEN IF hw.ok /\ ~cfg.keep_hosts_syntax
             THEN [same EXCEPT !.white = W \cup {<<"@@", "||">> \o hw.group1 \o <<"^">>}]
             ELSE IF hw.ok
             THEN [same EXCEPT !.white = W \cup {hw.group0}]
             ELSE IF StartsWith(line, "@@")
             THEN [same EXCEPT !.white = W \cup {line}]
             ELSE same
        ELSE IF hb.ok /\ ~cfg.keep_hosts_syntax
             THEN [same EXCEPT !.black = B \cup {<<"||">> \o hb.group1 \o <<"^">>}]
             ELSE IF hb.ok
             THEN [same EXCEPT !.black = B \cup {hb.group0}]
             ELSE [same EXCEPT !.black = B \cup {line}]

RECURSIVE ProcessLines(_, _, _, _, _)
\* the loop of _process_single_file over the lines of one file: it ends at
\* the first line that raises
ProcessLines(lines, is_whitelist, cfg, B, W) ==
    IF lines = <<>> THEN [black |-> B, white |-> W, raised |-> FALSE]
    ELSE LET r == ProcessLine(lines[1], is_whitelist, cfg, B, W)
         IN  IF r.raised THEN r
             ELSE ProcessLines(Tail(lines), is_whitelist, cfg, r.black, r.white)

\* is_whitelist of _process_single_file: a '*.rules' file is a whitelist when
\* its first line starts with '@@'
IsWhitelistFile(f, lines) ==
    IF f \in AutoFiles
    THEN lines # <<>> /\ StartsWith(lines[1], "@@")
    ELSE f \in WhiteFiles

\* _process_single_file: whatever a line raises is logged and ends the file
ProcessFile(f, lines, cfg, B, W) ==
    ProcessLines(lines, IsWhitelistFile(f, lines), cfg, B, W)

\* get_fingerprint: the text lower-cased and without whitespace (md5 of it)
get_fingerprint(rule) == SelectSeq(Lower(rule), LAMBDA t : t \notin SpaceToks)

\* _remove_duplicates
RemoveDuplicates(cfg, B, W) ==
    LET B1 == {rule \in B : ~StartsWith(rule, "!")}
        W1 == {rule \in W : ~StartsWith(rule, "!")}
        black_fps == {get_fingerprint(rule) : rule \in B1}
        white_fps == {get_fingerprint(Drop(rule, 1)) :
                        rule \in {r \in W1 : StartsWith(r, "@@")}}
    IN  IF cfg.conflict_resolution = "whitelist_priority"
        THEN [black |-> B1,
              white |-> {rule \in W1 :
                           ~(StartsWith(rule, "@@")
                             /\ get_fingerprint(Drop(rule, 1)) \in black_fps)}]
        ELSE [black |-> {rule \in B1 : get_fingerprint(rule) \notin white_fps},
              white |-> W1]

\* extract_domain of _resolve_conflicts: r'^\|\|([^\s\\\/^]+)', <<>> for None
extract_domain(rule) ==
    IF StartsWith(rule, "||")
    THEN Take(Tail(rule), RunLen(Tail(rule), AlphaToks \cup DigitToks \cup Ip4Toks
                 \cup DollarToks \cup {".", "-", "*", "!", "#", "@@", "||", "::",
                                       "[Adblock", "]"}))
    ELSE <<>>

\* the conflicts _resolve_conflicts finds (and only logs)
Conflicts(B, W) ==
    LET black_domains == {extract_domain(r) : r \in B} \ {<<>>}
        white_domains ==
            {extract_domain(Drop(r, 1)) : r \in {w \in W : StartsWith(w, "@@")}}
                \ {<<>>}
    IN  black_domains \cap white_domains

\* _post_process: _validate_rules and _resolve_conflicts only log
PostProcessed(cfg, B, W) ==
    IF cfg.remove_duplicates THEN RemoveDuplicates(cfg, B, W)
    ELSE [black |-> B, white |-> W]

\* sorted(rules, key=lambda x: x.lower()): the sort is stable, and the order
\* in which a set hands out entries with equal keys is not fixed
SortedContents(rules) ==
    {p \in Orders(rules) :
        \A i \in 1..Len(p), j \in 1..Len(p) :
            i < j => ~SeqLess(Lower(p[j]), Lower(p[i]))}

\* the content _save_rules prepares for one file
SaveContents(cfg, rules) ==
    {IF cfg.minify_output THEN SelectSeq(p, LAMBDA r : ~StartsWith(r, "!")) ELSE p :
        p \in SortedContents(rules)}

\* an earlier run's output, still on disk when the run starts
OldAdblock == <<BlockLineModifier>>
OldAllow == <<AllowLine>>

\* the input directories of at most MaxTotalLines lines
InputDirs ==
    {[f \in FileNames |->
        SelectSeq(all, LAMBDA x : x[2] = f)] :
            all \in SeqsUpTo(LineUniverse \X FileNames, MaxTotalLines)}

FileLines(dir, f) == [i \in 1..Len(dir[f]) |-> dir[f][i][1]]

\* the sets of files that cannot be read: none, or one of the block lists
UnreadableSets == {{}, {"adblock02.txt"}}

\* the lines of a file that cannot be read are never seen: the model keeps
\* none for it
MergeStart ==
    /\ config \in Configs
    /\ \E dir \in InputDirs : files = [f \in FileNames |-> FileLines(dir, f)]
    /\ unreadable \in UnreadableSets
    /\ \A f \in unreadable : files[f] = <<>>
    /\ pending = FileNames
    /\ black_rules = {}
    /\ white_rules = {}
    /\ disk_adblock = OldAdblock
    /\ disk_allow = OldAllow
    /\ new_adblock = <<>>
    /\ new_allow = <<>>
    /\ merge_pc = "backup"

\* 'if self.config['backup_original']: self._backup_files(input_path)':
\* file.read_text() of a file that cannot be read raises, process_files logs
\* and raises again
BackupFiles ==
    /\ merge_pc = "backup"
    /\ merge_pc' = IF config.backup_original /\ unreadable # {}
                   THEN "backup_failed" ELSE "files"
    /\ UNCHANGED << config, files, unreadable, pending, black_rules, white_rules,
                    disk_adblock, disk_allow, new_adblock, new_allow >>

\* one turn of the loops of process_files over file_types and glob()
ProcessSingleFile(f) ==
    /\ merge_pc = "files"
    /\ f \in pending
    /\ \A g \in pending : GlobGroup(f) <= GlobGroup(g)
    /\ LET r == ProcessFile(f, files[f], config, black_rules, white_rules)
       IN  IF f \in unreadable
           THEN \* 'except PermissionError': logged, the file is skipped
                UNCHANGED << black_rules, white_rules >>
           ELSE /\ black_rules' = r.black
                /\ white_rules' = r.white
    /\ pending' = pending \ {f}
    /\ UNCHANGED << config, files, unreadable, disk_adblock, disk_allow, new_adblock,
                    new_allow, merge_pc >>

\* self._post_process(), and the first lines of _save_rules
PostProcess ==
    /\ merge_pc = "files"
    /\ pending = {}
    /\ LET r == PostProcessed(config, black_rules, white_rules)
       IN  /\ black_rules' = r.black
           /\ white_rules' = r.white
           /\ new_adblock' \in SaveContents(config, r.black)
           /\ new_allow' \in SaveContents(config, r.white)
    /\ merge_pc' = "open_adblock"
    /\ UNCHANGED << config, files, unreadable, pending, disk_adblock, disk_allow >>

\* (output_dir / 'adblock.txt').open('w'): the file is truncated
OpenAdblock ==
    /\ merge_pc = "open_adblock"
    /\ disk_adblock' = <<>>
    /\ merge_pc' = "write_adblock"
    /\ UNCHANGED << config, files, unreadable, pending, black_rules, white_rules,
                    disk_allow, new_adblock, new_allow >>

\* f.write('\n'.join(black_content)) and the close of the file
WriteAdblock ==
    /\ merge_pc = "write_adblock"
    /\ disk_adblock' = new_adblock
    /\ merge_pc' = "open_allow"
    /\ UNCHANGED << config, files, unreadable, pending, black_rules, white_rules,
                    disk_allow, new_adblock, new_allow >>

\* (output_dir / 'allow.txt').open('w'): the file is truncated
OpenAllow ==
    /\ merge_pc = "open_allow"
    /\ disk_allow' = <<>>
    /\ merge_pc' = "write_allow"
    /\ UNCHANGED << config, files, unreadable, pending, black_rules, white_rules,
                    disk_adblock, new_adblock, new_allow >>

\* f.write('\n'.join(white_content)) and the close of the file
WriteAllow ==
    /\ merge_pc = "write_allow"
    /\ disk_allow' = new_allow
    /\ merge_pc' = "done"
    /\ UNCHANGED << config, files, unreadable, pending, black_rules, white_rules,
                    disk_adblock, new_adblock, new_allow >>

\* a write that fails part-way (IOError): what was flushed stays in the file,
\* _save_rules logs and raises, process_files raises
WriteFails ==
    /\ merge_pc \in {"write_adblock", "write_allow"}
    /\ IF merge_pc = "write_adblock"
       THEN /\ \E n \in 0..Len(new_adblock) : disk_adblock' = Take(new_adblock, n)
            /\ UNCHANGED disk_allow
       ELSE /\ \E n \in 0..Len(new_allow) : disk_allow' = Take(new_allow, n)
            /\ UNCHANGED disk_adblock
    /\ merge_pc' = "failed"
    /\ UNCHANGED << config, files, unreadable, pending, black_rules, white_rules,
                    new_adblock, new_allow >>

----------------------------------------------------------------------------
(* filter-ad.py: RuleProcessor *)

VARIABLES
    allow_file,    \* the lines of data/rules/allow.txt
    dns_file,      \* the lines of data/rules/dns.txt
    whitelist,     \* self.whitelist
    filtered,      \* the lines written to data/rules/adblock-filtered.txt
    fa_next,       \* the index of the next line of dns.txt to process
    fa_pc          \* where main stands

fa_vars == << allow_file, dns_file, whitelist, filtered, fa_next, fa_pc >>

\* [a-z0-9-*] of rule_parser
ParserToks == LowerAlphaToks \cup DigitToks \cup Ip4Toks \cup {"-", "*"}

\* the tokens str.strip('.|/') takes off
DotBarSlashToks == {".", "||", "/"}

RECURSIVE StripToks(_, _)
\* str.strip(chars)
StripToks(s, cls) ==
    IF s # <<>> /\ s[1] \in cls THEN StripToks(Tail(s), cls)
    ELSE IF s # <<>> /\ s[Len(s)] \in cls THEN StripToks(Take(s, Len(s) - 1), cls)
    ELSE s

\* rule.split('$')[0]
BeforeDollar(s) == Take(s, RunLen(s, {t \in {s[i] : i \in 1..Len(s)} : t \notin DollarToks}))

\* the length of what rule_parser matches at the start of s, 0 for no match:
\* r'^(@@\|\|)?(\|\|)?([a-z0-9-*]+\.?)+(\^|\$|/)'
RuleParserMatch(s) ==
    LET p1 == IF Len(s) >= 2 /\ s[1] = "@@" /\ s[2] = "||" THEN 2 ELSE 0
        p2 == IF Len(s) > p1 /\ s[p1 + 1] = "||" THEN p1 + 1 ELSE p1
        \* the body after a prefix of n tokens: labels with single dots
        \* between them, then '^', '$' or '/'
        Body(n) ==
            LET run == RunLen(Drop(s, n), ParserToks \cup {"."})
                ok == /\ run >= 1
                      /\ s[n + 1] # "."
                      /\ \A i \in (n + 1)..(n + run - 1) : ~(s[i] = "." /\ s[i + 1] = ".")
                      /\ Len(s) > n + run
                      /\ s[n + run + 1] \in {"^", "/"} \cup DollarToks
            IN  IF ok THEN n + run + 1 ELSE 0
    IN  IF Body(p2) # 0 THEN Body(p2) ELSE Body(p1)

\* _normalize_rule
NormalizeRule(rule) ==
    LET text == Strip(BeforeDollar(rule))
        n == RuleParserMatch(text)
        domain == Take(text, n)
        kept == SelectSeq(domain, LAMBDA t : t \notin {"^", "*"})
    IN  IF n = 0 THEN <<>> ELSE Lower(StripToks(kept, DotBarSlashToks))

\* the positions of the '.' tokens of s
DotPositions(s) == {i \in 1..Len(s) : s[i] = "."}

\* '.'.join(norm.split('.')[i:])
SuffixAfterDot(s, i) ==
    LET at == CHOOSE k \in DotPositions(s) :
                  Cardinality({j \in DotPositions(s) : j <= k}) = i
    IN  Drop(s, at)

\* _is_whitelisted
IsWhitelisted(rule, wl) ==
    LET norm == NormalizeRule(rule)
        parts == Cardinality(DotPositions(norm)) + 1
        upto == (IF parts < 5 THEN parts ELSE 5) - 1
    IN  /\ norm # <<>>
        /\ \/ norm \in wl
           \/ \E i \in 1..upto : SuffixAfterDot(norm, i) \in wl

\* a comment for load_whitelist and process_blacklist: startswith(('!', '#'))
IsComment(line) == StartsWith(line, "!") \/ StartsWith(line, "#")

RECURSIVE LoadedWhitelist(_, _)
\* load_whitelist
LoadedWhitelist(lines, wl) ==
    IF lines = <<>> THEN wl
    ELSE LET line == Strip(lines[1])
             norm == NormalizeRule(line)
         IN  LoadedWhitelist(Tail(lines),
                 IF line # <<>> /\ ~IsComment(line) /\ norm # <<>>
                 THEN wl \cup {norm} ELSE wl)

FaStart ==
    /\ allow_file \in SeqsUpTo(FaAllowUniverse, MaxAllowLines)
    /\ dns_file \in SeqsUpTo(FaBlockUniverse, MaxDnsLines)
    /\ whitelist = {}
    /\ filtered = <<>>
    /\ fa_next = 1
    /\ fa_pc = "load"

\* processor.load_whitelist(input_dir / 'allow.txt')
LoadWhitelist ==
    /\ fa_pc = "load"
    /\ whitelist' = LoadedWhitelist(allow_file, whitelist)
    /\ fa_pc' = "open"
    /\ UNCHANGED << allow_file, dns_file, filtered, fa_next >>

\* the two open() calls of process_blacklist: the output is truncated
OpenFiltered ==
    /\ fa_pc = "open"
    /\ filtered' = <<>>
    /\ fa_next' = 1
    /\ fa_pc' = "lines"
    /\ UNCHANGED << allow_file, dns_file, whitelist >>

\* one turn of the loop of process_blacklist
ProcessBlacklistLine ==
    /\ fa_pc = "lines"
    /\ fa_next <= Len(dns_file)
    /\ LET line == Strip(dns_file[fa_next])
       IN  filtered' =
               IF line = <<>> \/ IsComment(line) \/ ~IsWhitelisted(line, whitelist)
               THEN Append(filtered, line)
               ELSE filtered
    /\ fa_next' = fa_next + 1
    /\ UNCHANGED << allow_file, dns_file, whitelist, fa_pc >>

\* the end of the loop: both files are closed
CloseFiltered ==
    /\ fa_pc = "lines"
    /\ fa_next > Len(dns_file)
    /\ fa_pc' = "done"
    /\ UNCHANGED << allow_file, dns_file, whitelist, filtered, fa_next >>

----------------------------------------------------------------------------
(* dns.py: DNSValidator *)

VARIABLES
    dns_max_workers,  \* config['max_workers']
    dns_now,          \* int(time.time()), in ticks
    dns_store,        \* the file config['cache_db']: a database, or corrupt
    dns_cache,        \* the table domains of the cache database, by domain
    dns_tasks,        \* the calls of validate_domain executor.map makes
    dns_pc            \* where _process_batch stands

dns_vars == << dns_max_workers, dns_now, dns_store, dns_cache, dns_tasks, dns_pc >>

\* config['cache_ttl'], in ticks of the clock: one TTL goes by per tick
cache_ttl == 1

\* config['whitelist'], of which the model keeps one entry
DnsWhitelist == {<<"qq", ".", "com">>}

\* config['dns_servers']
DomesticServers == {"223.5.5.5", "119.29.29.29", "114.114.114.114"}
OverseasServers == {"8.8.8.8", "1.1.1.1", "9.9.9.9"}

\* the domains of the rules process_file hands to _process_batch
DnsDomains == {Domain1, OtherDomain} \cup DnsWhitelist

\* no row of the table
NoRow ==
    [present |-> FALSE, valid_domestic |-> FALSE, valid_overseas |-> FALSE,
     checked_at |-> 0, expires_at |-> 0]

\* the rows an earlier run may have left for a domain: _clean_cache, run at
\* tick 0, has deleted every row with expires_at < 0
EarlierRows ==
    { NoRow,
      [present |-> TRUE, valid_domestic |-> TRUE, valid_overseas |-> FALSE,
       checked_at |-> 0, expires_at |-> 1],
      [present |-> TRUE, valid_domestic |-> FALSE, valid_overseas |-> FALSE,
       checked_at |-> 0, expires_at |-> 1] }

\* a call of validate_domain that has not started
QueuedTask(d) ==
    [domain |-> d, pc |-> "queued", domestic_ok |-> FALSE, overseas_ok |-> FALSE,
     result |-> FALSE,
     \* what the call did, kept for the properties
     asked |-> {}, answered |-> {}, cache_read |-> FALSE, from_cache |-> FALSE,
     seen_now |-> 0, seen_row |-> NoRow]

\* the threads of the pool of _process_batch, at most NumThreads in the model
PoolSize == IF dns_max_workers < NumThreads THEN dns_max_workers ELSE NumThreads

\* the threads of the pool of _check_with_servers: min(3, max_workers)
CheckPoolSize == IF dns_max_workers < 3 THEN dns_max_workers ELSE 3

Running(t) == t.pc \in {"lookup", "domestic", "overseas", "update"}

\* the servers that are up
Responsive == {"223.5.5.5", "8.8.8.8"}

\* the servers of a group that answer one query with a non-empty stdout:
\* none of them, or one that is up
DigAnswers(servers) == {{}} \cup {{s} : s \in servers \cap Responsive}

\* a SELECT without 'AND expires_at>=?'
CacheHitIgnoringExpiry(row, now) == row.present

\* 'SELECT ... WHERE domain=? AND expires_at>=?' finds the row
CacheHit(row, now) == row.present /\ row.expires_at >= now

\* any(row)
AnyRow(row) == row.valid_domestic \/ row.valid_overseas

\* _check_with_servers: some future's result is true
CheckWithServers(answers) == answers # {}

\* return domestic_ok or overseas_ok
Verdict(domestic_ok, overseas_ok) == domestic_ok \/ overseas_ok

DnsStart ==
    /\ dns_max_workers \in {1, 6}
    /\ dns_now = 0
    /\ dns_store \in {"database", "corrupt"}
    /\ dns_cache \in [DnsDomains -> EarlierRows]
    /\ \A d \in DnsWhitelist : dns_cache[d] = NoRow
    /\ dns_store = "corrupt" => \A d \in DnsDomains : dns_cache[d] = NoRow
    /\ \E batch \in SeqsUpTo(DnsDomains, MaxBatch) :
           /\ batch # <<>>
           /\ dns_tasks = [i \in 1..Len(batch) |-> QueuedTask(batch[i])]
    /\ dns_pc = "init"

\* DNSValidator(config) and _clean_cache(): sqlite3 raises DatabaseError for a
\* file that is not a database, and neither _init_cache nor main catches it
InitCache ==
    /\ dns_pc = "init"
    /\ dns_pc' = IF dns_store = "corrupt" THEN "init_raised" ELSE "map"
    /\ UNCHANGED << dns_max_workers, dns_now, dns_store, dns_cache, dns_tasks >>

\* a thread of the pool takes the next call: 'if domain in config["whitelist"]'
StartValidate(i) ==
    /\ dns_pc = "map"
    /\ dns_tasks[i].pc = "queued"
    /\ \A j \in 1..(i - 1) : dns_tasks[j].pc # "queued"
    /\ Cardinality({j \in 1..Len(dns_tasks) : Running(dns_tasks[j])}) < PoolSize
    /\ dns_tasks' =
           [dns_tasks EXCEPT ![i] =
               IF @.domain \in DnsWhitelist
               THEN [@ EXCEPT !.pc = "done", !.result = TRUE]
               ELSE [@ EXCEPT !.pc = "lookup"]]
    /\ UNCHANGED << dns_max_workers, dns_now, dns_store, dns_cache, dns_pc >>

\* the SELECT of validate_domain and 'if row: return any(row)'
CacheLookup(i) ==
    /\ dns_tasks[i].pc = "lookup"
    /\ LET row == dns_cache[dns_tasks[i].domain]
       IN  dns_tasks' =
               [dns_tasks EXCEPT ![i] =
                   IF CacheHit(row, dns_now)
                   THEN [@ EXCEPT !.pc = "done", !.result = AnyRow(row),
                                  !.cache_read = TRUE, !.from_cache = TRUE,
                                  !.seen_now = dns_now, !.seen_row = row]
                   ELSE [@ EXCEPT !.pc = "domestic", !.cache_read = TRUE,
                                  !.seen_now = dns_now, !.seen_row = row]]
    /\ UNCHANGED << dns_max_workers, dns_now, dns_store, dns_cache, dns_pc >>

\* domestic_ok = self._check_with_servers(domain, dns_servers['domestic'])
CheckDomestic(i) ==
    /\ dns_tasks[i].pc = "domestic"
    /\ \E answers \in DigAnswers(DomesticServers) :
           dns_tasks' =
               [dns_tasks EXCEPT ![i] =
                   [@ EXCEPT !.pc = "overseas",
                             !.domestic_ok = CheckWithServers(answers),
                             !.asked = @ \cup DomesticServers,
                             !.answered = @ \cup answers]]
    /\ UNCHANGED << dns_max_workers, dns_now, dns_store, dns_cache, dns_pc >>

\* overseas_ok = self._check_with_servers(domain, dns_servers['overseas'])
CheckOverseas(i) ==
    /\ dns_tasks[i].pc = "overseas"
    /\ \E answers \in DigAnswers(OverseasServers) :
           dns_tasks' =
               [dns_tasks EXCEPT ![i] =
                   [@ EXCEPT !.pc = "update",
                             !.overseas_ok = CheckWithServers(answers),
                             !.asked = @ \cup OverseasServers,
                             !.answered = @ \cup answers]]
    /\ UNCHANGED << dns_max_workers, dns_now, dns_store, dns_cache, dns_pc >>

\* as_completed(futures, timeout=timeout*3) raises TimeoutError: the pool of
\* _check_with_servers runs the queries one after the other and each of them
\* runs into its own timeout
CheckTimesOut(i) ==
    /\ dns_tasks[i].pc \in {"domestic", "overseas"}
    /\ CheckPoolSize = 1
    /\ dns_tasks' =
           [dns_tasks EXCEPT ![i] =
               [@ EXCEPT !.pc = "raised",
                         !.asked = @ \cup (IF dns_tasks[i].pc = "domestic"
                                           THEN DomesticServers ELSE OverseasServers)]]
    /\ UNCHANGED << dns_max_workers, dns_now, dns_store, dns_cache, dns_pc >>

\* 'INSERT OR REPLACE INTO domains' and the return of validate_domain
UpdateCache(i) ==
    /\ dns_tasks[i].pc = "update"
    /\ dns_cache' =
           [dns_cache EXCEPT ![dns_tasks[i].domain] =
               [present |-> TRUE,
                valid_domestic |-> dns_tasks[i].domestic_ok,
                valid_overseas |-> dns_tasks[i].overseas_ok,
                checked_at |-> dns_now,
                expires_at |-> dns_now + cache_ttl]]
    /\ dns_tasks' =
           [dns_tasks EXCEPT ![i] =
               [@ EXCEPT !.pc = "done",
                         !.result = Verdict(dns_tasks[i].domestic_ok,
                                             dns_tasks[i].overseas_ok)]]
    /\ UNCHANGED << dns_max_workers, dns_now, dns_store, dns_pc >>

\* the clock
DnsTick ==
    /\ dns_pc = "map"
    /\ dns_now < MaxTime
    /\ dns_now' = dns_now + 1
    /\ UNCHANGED << dns_max_workers, dns_store, dns_cache, dns_tasks, dns_pc >>

\* list(executor.map(...)) has every result, or raises what a call raised
EndMap ==
    /\ dns_pc = "map"
    /\ \A i \in 1..Len(dns_tasks) : dns_tasks[i].pc \in {"done", "raised"}
    /\ dns_pc' = IF \E i \in 1..Len(dns_tasks) : dns_tasks[i].pc = "raised"
                 THEN "raised" ELSE "mapped"
    /\ UNCHANGED << dns_max_workers, dns_now, dns_store, dns_cache, dns_tasks >>

----------------------------------------------------------------------------
(* dns.py: DNSValidator.process_file *)

VARIABLES
    rule_file,     \* the lines of the rule file on disk
    tmp_file,      \* file.with_suffix('.tmp') on disk: whether it exists, its lines
    pf_lines,      \* lines, as read from the rule file
    pf_next,       \* the index of the next line of the loop
    valid_lines,   \* valid_lines
    pf_batch,      \* batch: the candidates not yet validated
    pf_invalid,    \* the indices of the lines whose domain validated false
    pf_pc          \* where process_file stands

pf_vars ==
    << rule_file, tmp_file, pf_lines, pf_next, valid_lines, pf_batch, pf_invalid,
       pf_pc >>

\* the lines of a rule file: rules of two domains, a rule in mixed case, a
\* comment, an allow rule, a hosts line and a blank line
PfLineUniverse ==
    {BlockLine, BlockLineOther, BlockLineMixed, CommentLine, AllowLine, HostsLine,
     <<>>}

\* _extract_domain: '||' taken off, the text cut at the first '^', at the
\* first '$' and at the first '/', lower-cased
ExtractDomain(rule) ==
    LET CutAt(t, stop) == Take(t, RunLen(t, {t[i] : i \in 1..Len(t)} \ stop))
        bare == IF StartsWith(rule, "||") THEN Tail(rule) ELSE rule
    IN  Lower(CutAt(CutAt(CutAt(bare, {"^"}), DollarToks), {"/"}))

\* re.match(r'^([a-z0-9-]+\.)+[a-z]{2,}$', domain)
IsCandidate(domain) ==
    /\ Len(domain) >= 3
    /\ \A i \in 1..Len(domain) :
           domain[i] \in LowerAlphaToks \cup DigitToks \cup Ip4Toks \cup {"-", "."}
    /\ domain[1] # "."
    /\ \A i \in 1..(Len(domain) - 1) : ~(domain[i] = "." /\ domain[i + 1] = ".")
    /\ domain[Len(domain)] \in LowerAlphaToks
    /\ \E k \in 1..(Len(domain) - 1) :
           /\ domain[k] = "."
           /\ \A i \in (k + 1)..Len(domain) : domain[i] \in LowerAlphaToks

\* the lines of a file that holds '\n'.join(valid_lines) + '\n'
Written(vl) == IF vl = <<>> THEN << <<>> >> ELSE vl

PfStart ==
    /\ rule_file \in SeqsUpTo(PfLineUniverse, MaxPfLines)
    /\ tmp_file \in {[exists |-> FALSE, lines |-> <<>>],
                      [exists |-> TRUE, lines |-> <<CommentLine>>]}
    /\ pf_lines = <<>>
    /\ pf_next = 1
    /\ valid_lines = <<>>
    /\ pf_batch = <<>>
    /\ pf_invalid = {}
    /\ pf_pc = "read"

\* lines = fin.readlines()
ReadLines ==
    /\ pf_pc = "read"
    /\ pf_lines' = rule_file
    /\ pf_pc' = "loop"
    /\ UNCHANGED << rule_file, tmp_file, pf_next, valid_lines, pf_batch, pf_invalid >>

\* one turn of 'for line in lines', up to the test of len(batch)
LoopLine ==
    /\ pf_pc = "loop"
    /\ pf_next <= Len(pf_lines)
    /\ Len(pf_batch) < MaxBatch
    /\ LET line == Strip(pf_lines[pf_next])
           domain == ExtractDomain(line)
       IN  IF line = <<>> \/ line[1] \in {"!", "#", "@@"} \/ ~IsCandidate(domain)
           THEN /\ valid_lines' = Append(valid_lines, line)
                /\ UNCHANGED pf_batch
           ELSE /\ pf_batch' =
                       Append(pf_batch, [line |-> line, domain |-> domain, at |-> pf_next])
                /\ UNCHANGED valid_lines
    /\ pf_next' = pf_next + 1
    /\ UNCHANGED << rule_file, tmp_file, pf_lines, pf_invalid, pf_pc >>

\* _process_batch for a full batch, or for what is left after the loop:
\* results is what validate_domain returns for the domains of the batch, in
\* the order of the batch; the lines of the valid ones are appended
ProcessBatch ==
    /\ pf_pc = "loop"
    /\ Len(pf_batch) >= MaxBatch \/ (pf_next > Len(pf_lines) /\ pf_batch # <<>>)
    /\ \E results \in [1..Len(pf_batch) -> BOOLEAN] :
           /\ valid_lines' =
                  valid_lines \o
                  SelectSeq([i \in 1..Len(pf_batch) |->
                                IF results[i] THEN pf_batch[i].line ELSE <<"dropped">>],
                            LAMBDA l : l # <<"dropped">>)
           /\ pf_invalid' = pf_invalid \cup {pf_batch[i].at : i \in
                                                {k \in 1..Len(pf_batch) : ~results[k]}}
    /\ pf_batch' = <<>>
    /\ UNCHANGED << rule_file, tmp_file, pf_lines, pf_next, pf_pc >>

\* validate_domain raises in a worker (sqlite3 'database is locked', a cache
\* file that cannot be opened): executor.map hands the exception on, it
\* leaves process_file and main
BatchRaises ==
    /\ pf_pc = "loop"
    /\ Len(pf_batch) >= MaxBatch \/ (pf_next > Len(pf_lines) /\ pf_batch # <<>>)
    /\ pf_pc' = "raised"
    /\ UNCHANGED << rule_file, tmp_file, pf_lines, pf_next, valid_lines, pf_batch,
                    pf_invalid >>

\* an open(file, 'w') in place of open(tmp_file, 'w')
OpenInPlace ==
    /\ pf_pc = "loop"
    /\ pf_next > Len(pf_lines)
    /\ pf_batch = <<>>
    /\ rule_file' = <<>>
    /\ tmp_file' = [exists |-> TRUE, lines |-> <<>>]
    /\ pf_pc' = "write"
    /\ UNCHANGED << pf_lines, pf_next, valid_lines, pf_batch, pf_invalid >>

\* open(tmp_file, 'w'): the file is created, or emptied
OpenTmp ==
    /\ pf_pc = "loop"
    /\ pf_next > Len(pf_lines)
    /\ pf_batch = <<>>
    /\ tmp_file' = [exists |-> TRUE, lines |-> <<>>]
    /\ pf_pc' = "write"
    /\ UNCHANGED << rule_file, pf_lines, pf_next, valid_lines, pf_batch, pf_invalid >>

\* fout.write(...): a part of the text reaches the file before the rest
WritePart ==
    /\ pf_pc = "write"
    /\ \E n \in (Len(tmp_file.lines) + 1)..(Len(Written(valid_lines)) - 1) :
           tmp_file' = [exists |-> TRUE, lines |-> Take(Written(valid_lines), n)]
    /\ UNCHANGED << rule_file, pf_lines, pf_next, valid_lines, pf_batch, pf_invalid,
                    pf_pc >>

\* the end of 'with open(tmp_file, 'w')': the whole text is in the file
CloseTmp ==
    /\ pf_pc = "write"
    /\ tmp_file' = [exists |-> TRUE, lines |-> Written(valid_lines)]
    /\ pf_pc' = "replace"
    /\ UNCHANGED << rule_file, pf_lines, pf_next, valid_lines, pf_batch, pf_invalid >>

\* tmp_file.replace(file)
ReplaceFile ==
    /\ pf_pc = "replace"
    /\ rule_file' = tmp_file.lines
    /\ tmp_file' = [exists |-> FALSE, lines |-> <<>>]
    /\ pf_pc' = "done"
    /\ UNCHANGED << pf_lines, pf_next, valid_lines, pf_batch, pf_invalid >>

\* the process is interrupted or killed
Interrupt ==
    /\ pf_pc \in {"read", "loop", "write", "replace"}
    /\ pf_pc' = "interrupted"
    /\ UNCHANGED << rule_file, tmp_file, pf_lines, pf_next, valid_lines, pf_batch,
                    pf_invalid >>

----------------------------------------------------------------------------
(* dl.py: handle_local_rules, smart_download, download_rules *)

VARIABLES
    dl_lists,      \* the lists adblock and allow of URLs
    dl_mod,        \* ./data/mod/adblock.txt and ./data/mod/whitelist.txt
    dl_saved,      \* the files ./tmp/adblockNN.txt and ./tmp/allowNN.txt
    dl_temp,       \* the files ./tmp/adblockNN.txt.tmp and ./tmp/allowNN.txt.tmp
    dl_todo,       \* the calls of smart_download that download_rules has yet to make
    dl_call,       \* the call of smart_download that runs, or ran last
    dl_pc          \* where main stands

dl_vars == << dl_lists, dl_mod, dl_saved, dl_temp, dl_todo, dl_call, dl_pc >>

MAX_RETRIES == 3

\* the fallback of domain_rules["51vip.biz"]
MirrorUrl == [netloc |-> "mirror.example.com", https |-> TRUE]

\* the URLs of the lists: a source without an entry in domain_rules, the
\* sources at rssv.cn and hgzspj.51vip.biz, and a source at 51vip.biz
DlUrls ==
    { [netloc |-> "raw.githubusercontent.com", https |-> TRUE],
      [netloc |-> "rssv.cn", https |-> FALSE],
      [netloc |-> "hgzspj.51vip.biz", https |-> FALSE],
      [netloc |-> "51vip.biz", https |-> FALSE] }

\* domain_rules.get(urlparse(url).netloc, {}): the retries and the fallback
DomainRule(url) ==
    CASE url.netloc = "rssv.cn" -> [retries |-> 5, fallback |-> FALSE]
      [] url.netloc = "51vip.biz" -> [retries |-> MAX_RETRIES, fallback |-> TRUE]
      [] OTHER -> [retries |-> MAX_RETRIES, fallback |-> FALSE]

\* f"./tmp/adblock{i:02d}.txt" and f"./tmp/allow{j:02d}.txt"
SavePaths == {"adblock", "allow"} \X (1..MaxUrls)

\* no call of smart_download yet
NoCall ==
    [url |-> MirrorUrl, save_path |-> <<"adblock", 1>>, attempt |-> 0,
     verify_ssl |-> TRUE, depth |-> 0, made |-> 0, ret |-> "none"]

\* the directories exist (init_environment); ./tmp holds no file; the
\* sources of the list allow are all https
DlStart ==
    /\ dl_lists \in [adblock : SeqsUpTo(DlUrls, MaxUrls) \ {<<>>},
                      allow : SeqsUpTo({u \in DlUrls : u.https}, 1) \ {<<>>}]
    /\ dl_mod \in [{"adblock", "allow"} -> {"absent", "local rules"}]
    /\ dl_saved = [p \in SavePaths |-> "absent"]
    /\ dl_temp = [p \in SavePaths |-> "absent"]
    /\ dl_todo = <<>>
    /\ dl_call = NoCall
    /\ dl_pc = "local"

\* handle_local_rules, and the two loops of download_rules laid out
HandleLocalRules ==
    /\ dl_pc = "local"
    /\ dl_mod' = [k \in {"adblock", "allow"} |->
                      IF dl_mod[k] = "absent" THEN "empty" ELSE dl_mod[k]]
    /\ dl_saved' = [dl_saved EXCEPT ![<<"adblock", 1>>] = dl_mod'["adblock"],
                                    ![<<"allow", 1>>] = dl_mod'["allow"]]
    /\ dl_todo' = [i \in 1..Len(dl_lists.adblock) |->
                       [url |-> dl_lists.adblock[i], save_path |-> <<"adblock", i>>]]
                  \o [j \in 1..Len(dl_lists.allow) |->
                       [url |-> dl_lists.allow[j], save_path |-> <<"allow", j>>]]
    /\ dl_pc' = "next"
    /\ UNCHANGED << dl_lists, dl_temp, dl_call >>

\* download_rules: the next smart_download(url, save_path), up to the loop
\* over the attempts
CallSmartDownload ==
    /\ dl_pc \in {"next", "returned"}
    /\ dl_todo # <<>>
    /\ dl_call' = [url |-> dl_todo[1].url, save_path |-> dl_todo[1].save_path,
                   attempt |-> 0, verify_ssl |-> dl_todo[1].url.https, depth |-> 0,
                   made |-> 0, ret |-> "none"]
    /\ dl_todo' = Tail(dl_todo)
    /\ dl_pc' = "attempt"
    /\ UNCHANGED << dl_lists, dl_mod, dl_saved, dl_temp >>

\* an attempt that succeeds: the temporary file is removed if there is one,
\* written in full, found not empty and moved to save_path; return True
AttemptSucceeds ==
    /\ dl_pc = "attempt"
    /\ dl_call.attempt < DomainRule(dl_call.url).retries
    /\ dl_temp' = [dl_temp EXCEPT ![dl_call.save_path] = "absent"]
    /\ dl_saved' = [dl_saved EXCEPT ![dl_call.save_path] = "download"]
    /\ dl_call' = [dl_call EXCEPT !.made = @ + 1, !.ret = "true"]
    /\ dl_pc' = "returned"
    /\ UNCHANGED << dl_lists, dl_mod, dl_todo >>

\* an attempt that ends in 'except Exception': the request fails, the status
\* is an error, the stream breaks or the file written is empty (ValueError);
\* the temporary file is removed
AttemptFails ==
    /\ dl_pc = "attempt"
    /\ dl_call.attempt < DomainRule(dl_call.url).retries
    /\ dl_temp' = [dl_temp EXCEPT ![dl_call.save_path] = "absent"]
    /\ dl_call' = [dl_call EXCEPT !.made = @ + 1, !.attempt = @ + 1]
    /\ UNCHANGED << dl_lists, dl_mod, dl_saved, dl_todo, dl_pc >>

\* a handler of SSLError that tries again without counting the attempt
SslErrorNotCounted ==
    /\ dl_pc = "attempt"
    /\ dl_call.attempt < DomainRule(dl_call.url).retries
    /\ dl_call.url.https
    /\ \E left \in {"absent", "partial"} :
           dl_temp' = [dl_temp EXCEPT ![dl_call.save_path] = left]
    /\ dl_call' = [dl_call EXCEPT !.made = @ + 1, !.verify_ssl = FALSE]
    /\ UNCHANGED << dl_lists, dl_mod, dl_saved, dl_todo, dl_pc >>

\* an attempt that ends in 'except requests.exceptions.SSLError', raised by
\* session.get or while the body is read: verification is switched off and
\* the loop goes on; what was written of the temporary file stays
AttemptSslError ==
    /\ dl_pc = "attempt"
    /\ dl_call.attempt < DomainRule(dl_call.url).retries
    /\ dl_call.url.https
    /\ \E left \in {"absent", "partial"} :
           dl_temp' = [dl_temp EXCEPT ![dl_call.save_path] = left]
    /\ dl_call' = [dl_call EXCEPT !.made = @ + 1, !.attempt = @ + 1,
                                  !.verify_ssl = FALSE]
    /\ UNCHANGED << dl_lists, dl_mod, dl_saved, dl_todo, dl_pc >>

\* after the loop, with a fallback in the rule of the domain:
\* return smart_download(rule['fallback'], save_path)
TryFallback ==
    /\ dl_pc = "attempt"
    /\ dl_call.attempt >= DomainRule(dl_call.url).retries
    /\ DomainRule(dl_call.url).fallback
    /\ dl_call' = [dl_call EXCEPT !.url = MirrorUrl, !.attempt = 0,
                                  !.verify_ssl = MirrorUrl.https,
                                  !.depth = @ + 1, !.made = 0]
    /\ UNCHANGED << dl_lists, dl_mod, dl_saved, dl_temp, dl_todo, dl_pc >>

\* after the loop, without a fallback: an empty file is left at save_path;
\* return False
GiveUp ==
    /\ dl_pc = "attempt"
    /\ dl_call.attempt >= DomainRule(dl_call.url).retries
    /\ ~DomainRule(dl_call.url).fallback
    /\ dl_saved' = [dl_saved EXCEPT ![dl_call.save_path] = "empty"]
    /\ dl_call' = [dl_call EXCEPT !.ret = "false"]
    /\ dl_pc' = "returned"
    /\ UNCHANGED << dl_lists, dl_mod, dl_temp, dl_todo >>

\* download_rules is through: main prints the statistics
EndDownloads ==
    /\ dl_pc \in {"next", "returned"}
    /\ dl_todo = <<>>
    /\ dl_pc' = "done"
    /\ UNCHANGED << dl_lists, dl_mod, dl_saved, dl_temp, dl_todo, dl_call >>

----------------------------------------------------------------------------
(* filter-dns.py: DNSValidator, RuleValidator, BlacklistProcessor *)

VARIABLES
    fd_config,        \* the [DNS] section of ConfigLoader: validation, whois
    fd_input,         \* the lines of the input file
    fd_pos,           \* the number of input lines _read_batches has read
    fd_tasks,         \* the futures of the batch: the calls of validate_rule
    valid_domains,    \* RuleValidator.cache['valid_domains']
    invalid_domains,  \* RuleValidator.cache['invalid_domains']
    whois_cache,      \* the lru_cache of _is_domain_expired
    results_adguard,  \* BlacklistProcessor.results['adguard']
    results_hosts,    \* BlacklistProcessor.results['hosts']
    fd_out_adguard,   \* the lines of the AdGuard output file on disk
    fd_out_hosts,     \* the lines of the hosts output file on disk
    fd_pc             \* where BlacklistProcessor.process stands

fd_vars ==
    << fd_config, fd_input, fd_pos, fd_tasks, valid_domains, invalid_domains,
       whois_cache, results_adguard, results_hosts, fd_out_adguard,
       fd_out_hosts, fd_pc >>

\* DNS_VALIDATION = True, WHOIS_ENABLED = False, and what the environment
\* variables DNS_VALIDATION and WHOIS_ENABLED can make of them, with the
\* BATCH_SIZE set at the head of the script
FdConfigs ==
    { [validation |-> c[1], whois |-> c[2], batch_size |-> b] :
        c \in {<<TRUE, FALSE>>, <<FALSE, FALSE>>, <<TRUE, TRUE>>},
        b \in 1..BatchSize }

\* the resolvers of _init_resolvers, of which the model keeps three
Endpoints ==
    { <<"doh", "https://dns.alidns.com/dns-query">>,
      <<"udp", "223.5.5.5">>,
      <<"udp", "8.8.8.8">> }

\* random.shuffle(protocols), and random.shuffle(servers) for each of them:
\* the endpoints of one protocol follow one another
ShuffledEndpoints ==
    {o \in Orders(Endpoints) :
        \A i \in 1..Len(o), j \in 1..Len(o), k \in 1..Len(o) :
            (i < j /\ j < k /\ o[i][1] = o[k][1]) => o[j][1] = o[i][1]}

\* the sets of endpoints that answer a query: none, or one of them
EndpointAnswers == {{}} \cup {{e} : e \in Endpoints}

\* regex['exclusions']: '^@@', '^#', '^!'
Excluded(line) ==
    StartsWith(line, "@@") \/ StartsWith(line, "#") \/ StartsWith(line, "!")

\* [a-zA-Z0-9.-]
DomainToks == AlphaToks \cup DigitToks \cup Ip4Toks \cup {".", "-"}

\* [^\s#]
NoSpaceNoHashToks ==
    DomainToks \cup DollarToks \cup {"@@", "||", "^", "!", "*", "/", "::", "[Adblock", "]"}

\* the length of '[a-zA-Z0-9.-]+\.[a-zA-Z]{2,}' at the start of s when one of
\* the tokens of after follows it, else 0
DomainMatch(s, after) ==
    LET run == RunLen(s, DomainToks)
    IN  IF /\ run >= 3
           /\ s[run] \in AlphaToks
           /\ s[run - 1] = "."
           /\ Len(s) > run
           /\ s[run + 1] \in after
        THEN run ELSE 0

\* _parse_adguard: the domain (match.group(1).lower()), <<>> for no match
ParseAdguard(rule) ==
    LET m1 == IF StartsWith(rule, "||")
              THEN DomainMatch(Tail(rule), {"^"} \cup DollarToks) ELSE 0
        m2 == DomainMatch(rule, DollarToks)
        m3 == IF Len(rule) >= 2 /\ rule[1] = "*" /\ rule[2] = "."
              THEN DomainMatch(Drop(rule, 2), {"^"} \cup DollarToks) ELSE 0
        m4 == IF StartsWith(rule, "||") THEN DomainMatch(Tail(rule), {"/"}) ELSE 0
    IN  IF m1 > 0 THEN Lower(SubSeq(rule, 2, 1 + m1))
        ELSE IF m2 > 0 THEN Lower(Take(rule, m2))
        ELSE IF m3 > 0 THEN Lower(SubSeq(rule, 3, 2 + m3))
        ELSE IF m4 > 0 THEN Lower(SubSeq(rule, 2, 1 + m4))
        ELSE <<>>

\* _parse_hosts: ip and domain; the second group of either pattern holds no
\* whitespace, so match.group(2).split() is one domain
ParseHosts(rule) ==
    LET s == LStrip(rule)
        first == IF s # <<>> /\ s[1] \in Ip4Toks THEN 1
                 ELSE RunLen(s, NoSpaceNoHashToks)
        ws == RunLen(Drop(s, first), SpaceToks)
        second == RunLen(Drop(s, first + ws), NoSpaceNoHashToks)
        \* the standard pattern fails: the simplified pattern is tried
        first2 == RunLen(s, NoSpaceNoHashToks)
        ws2 == RunLen(Drop(s, first2), SpaceToks)
        second2 == RunLen(Drop(s, first2 + ws2), NoSpaceNoHashToks)
    IN  IF first >= 1 /\ ws >= 1 /\ second >= 1
        THEN [ok |-> TRUE, ip |-> Take(s, first),
              domain |-> Lower(SubSeq(s, first + ws + 1, first + ws + second))]
        ELSE IF first2 >= 1 /\ ws2 >= 1 /\ second2 >= 1
        THEN [ok |-> TRUE, ip |-> Take(s, first2),
              domain |-> Lower(SubSeq(s, first2 + ws2 + 1, first2 + ws2 + second2))]
        ELSE [ok |-> FALSE, ip |-> <<>>, domain |-> <<>>]

\* the text has no empty label: the 'idna' codec of socket.getaddrinfo and
\* dns.name.from_text take it
Encodable(domain) ==
    /\ domain # <<>>
    /\ domain[1] # "."
    /\ \A i \in 1..(Len(domain) - 1) : ~(domain[i] = "." /\ domain[i + 1] = ".")

\* the batches _read_batches yields: the lines from position pos on that are
\* not blank and not excluded, at most batch_size of them, and the position
\* after the last line read
RECURSIVE ReadBatch(_, _, _, _)
ReadBatch(lines, pos, batch, batch_size) ==
    IF pos >= Len(lines) \/ Len(batch) >= batch_size
    THEN [batch |-> batch, pos |-> pos]
    ELSE LET line == Strip(lines[pos + 1])
         IN  ReadBatch(lines, pos + 1,
                 IF line # <<>> /\ ~Excluded(line) THEN Append(batch, line) ELSE batch,
                 batch_size)

\* a call of validate_rule that no thread has taken yet
QueuedRule(line) ==
    [line |-> line, pc |-> "queued", kind |-> "none", domain |-> <<>>, ip |-> <<>>,
     is_valid |-> FALSE, adguard_rule |-> <<>>, hosts_rules |-> {},
     \* what the call did, kept for the properties
     asked |-> {}, answered |-> {}, system_asked |-> FALSE, system_ok |-> FALSE,
     whois_asked |-> FALSE, expired |-> FALSE, from_cache |-> FALSE]

\* a _validate_adguard / _validate_hosts that loses the rule of a domain found
\* in the cache
RuleResultLosingCached(t, is_valid) ==
    IF ~is_valid \/ t.from_cache THEN [t EXCEPT !.pc = "done", !.is_valid = FALSE]
    ELSE IF t.kind = "adguard"
    THEN [t EXCEPT !.pc = "done", !.is_valid = TRUE, !.adguard_rule = t.line]
    ELSE [t EXCEPT !.pc = "done", !.is_valid = TRUE,
                   !.adguard_rule = t.ip \o <<" ">> \o t.domain,
                   !.hosts_rules = {t.ip \o <<" ">> \o t.domain}]

\* a validator that ignores the flag
SkipValidationNever(cfg) == FALSE

\* 'if not self.config.getbool('DNS', 'validation'): return True'
SkipValidation(cfg) == ~cfg.validation

\* the return value of _validate_adguard / _validate_hosts for the verdict
\* is_valid: rule['domain'] never starts with '||' or '*.', so an AdGuard rule
\* yields no hosts rule
RuleResult(t, is_valid) ==
    IF ~is_valid THEN [t EXCEPT !.pc = "done", !.is_valid = FALSE]
    ELSE IF t.kind = "adguard"
    THEN [t EXCEPT !.pc = "done", !.is_valid = TRUE, !.adguard_rule = t.line]
    ELSE [t EXCEPT !.pc = "done", !.is_valid = TRUE,
                   !.adguard_rule = t.ip \o <<" ">> \o t.domain,
                   !.hosts_rules = {t.ip \o <<" ">> \o t.domain}]

\* a query without _fallback_query
QueryResultNoFallback(first, system, again) == first # {}

\* DNSValidator.query and _fallback_query: first is what the shuffled loops
\* of query found, system what socket.getaddrinfo found, again what the
\* loop of _fallback_query found
QueryResult(first, system, again) == first # {} \/ system \/ again # {}

\* is_valid = self.dns.query(domain) and not self._is_domain_expired(domain)
IsValid(query_ok, expired) == query_ok /\ ~expired

FdRunning(t) == t.pc \in {"check", "query", "whois", "insert"}

FdStart ==
    /\ fd_config \in FdConfigs
    /\ fd_input \in SeqsUpTo(FdLineUniverse, MaxFdLines)
    /\ fd_pos = 0
    /\ fd_tasks = <<>>
    /\ valid_domains = {}
    /\ invalid_domains = {}
    /\ whois_cache = {}
    /\ results_adguard = {}
    /\ results_hosts = {}
    /\ fd_out_adguard = <<>>
    /\ fd_out_hosts = <<>>
    /\ fd_pc = "read"

\* one turn of 'for batch in self._read_batches()': every line of the batch
\* is submitted; after the last batch _save_results is next
SubmitBatch ==
    /\ fd_pc = "read"
    /\ LET r == ReadBatch(fd_input, fd_pos, <<>>, fd_config.batch_size)
       IN  /\ fd_pos' = r.pos
           /\ IF r.batch = <<>>
              THEN /\ fd_pc' = "save"
                   /\ UNCHANGED fd_tasks
              ELSE /\ fd_pc' = "batch"
                   /\ fd_tasks' = [i \in 1..Len(r.batch) |-> QueuedRule(r.batch[i])]
    /\ UNCHANGED << fd_config, fd_input, valid_domains, invalid_domains, whois_cache,
                    results_adguard, results_hosts, fd_out_adguard, fd_out_hosts >>

\* a thread of the pool takes the next call of validate_rule: the rule is
\* parsed, and _is_domain_valid returns True when validation is off
StartRule(i) ==
    /\ fd_tasks[i].pc = "queued"
    /\ \A j \in 1..(i - 1) : fd_tasks[j].pc # "queued"
    /\ Cardinality({j \in 1..Len(fd_tasks) : FdRunning(fd_tasks[j])}) < NumThreads
    /\ LET t == fd_tasks[i]
           ad == ParseAdguard(t.line)
           ho == ParseHosts(t.line)
           parsed ==
               IF Excluded(t.line) THEN t
               ELSE IF ad # <<>> THEN [t EXCEPT !.kind = "adguard", !.domain = ad]
               ELSE IF ho.ok
               THEN [t EXCEPT !.kind = "hosts", !.domain = ho.domain, !.ip = ho.ip]
               ELSE t
       IN  fd_tasks' =
               [fd_tasks EXCEPT ![i] =
                   IF parsed.kind = "none" THEN [parsed EXCEPT !.pc = "done"]
                   ELSE IF SkipValidation(fd_config) THEN RuleResult(parsed, TRUE)
                   ELSE [parsed EXCEPT !.pc = "check"]]
    /\ UNCHANGED << fd_config, fd_input, fd_pos, valid_domains, invalid_domains,
                    whois_cache, results_adguard, results_hosts, fd_out_adguard,
                    fd_out_hosts, fd_pc >>

\* the first 'with self.lock' of _is_domain_valid: the look into the cache
LockedCheck(i) ==
    /\ fd_tasks[i].pc = "check"
    /\ LET t == fd_tasks[i]
       IN  fd_tasks' =
               [fd_tasks EXCEPT ![i] =
                   IF t.domain \in valid_domains
                   THEN RuleResult([t EXCEPT !.from_cache = TRUE], TRUE)
                   ELSE IF t.domain \in invalid_domains
                   THEN RuleResult([t EXCEPT !.from_cache = TRUE], FALSE)
                   ELSE [t EXCEPT !.pc = "query"]]
    /\ UNCHANGED << fd_config, fd_input, fd_pos, valid_domains, invalid_domains,
                    whois_cache, results_adguard, results_hosts, fd_out_adguard,
                    fd_out_hosts, fd_pc >>

\* self.dns.query(domain), outside the lock: the loops over the shuffled
\* protocols and servers end at the first answer; with no answer
\* _fallback_query asks the system resolver and then every endpoint again
Query(i) ==
    /\ fd_tasks[i].pc = "query"
    /\ Encodable(fd_tasks[i].domain)
    /\ \E first \in EndpointAnswers, order \in ShuffledEndpoints :
       \E system \in BOOLEAN, again \in EndpointAnswers :
           LET t == fd_tasks[i]
               \* the endpoints asked up to the first answer
               upto == IF first = {} THEN Len(order)
                       ELSE CHOOSE k \in 1..Len(order) : order[k] \in first
               asked1 == {order[k] : k \in 1..upto}
               fallback == first = {}
               ok == QueryResult(first, fallback /\ system,
                                 IF fallback /\ ~system THEN again ELSE {})
               seen == [t EXCEPT
                          !.asked = IF fallback /\ ~system THEN Endpoints ELSE asked1,
                          !.answered = IF fallback /\ ~system THEN again ELSE first,
                          !.system_asked = fallback,
                          !.system_ok = fallback /\ system,
                          !.is_valid = ok]
           IN  /\ (~fallback => (~system /\ again = {}))
               /\ (system => again = {})
               /\ fd_tasks' =
                      [fd_tasks EXCEPT ![i] =
                          IF ok /\ fd_config.whois THEN [seen EXCEPT !.pc = "whois"]
                          ELSE [seen EXCEPT !.pc = "insert",
                                            !.is_valid = IsValid(ok, FALSE)]]
    /\ UNCHANGED << fd_config, fd_input, fd_pos, valid_domains, invalid_domains,
                    whois_cache, results_adguard, results_hosts, fd_out_adguard,
                    fd_out_hosts, fd_pc >>

\* self.dns.query(domain) for a domain with an empty label: no endpoint can
\* be asked (dns.name.from_text raises, the query functions return False),
\* and socket.getaddrinfo raises UnicodeError, which is no socket.gaierror
QueryRaises(i) ==
    /\ fd_tasks[i].pc = "query"
    /\ ~Encodable(fd_tasks[i].domain)
    /\ fd_tasks' =
           [fd_tasks EXCEPT ![i] =
               [@ EXCEPT !.pc = "raised", !.asked = Endpoints, !.system_asked = TRUE]]
    /\ UNCHANGED << fd_config, fd_input, fd_pos, valid_domains, invalid_domains,
                    whois_cache, results_adguard, results_hosts, fd_out_adguard,
                    fd_out_hosts, fd_pc >>

\* self._is_domain_expired(domain) with WHOIS on: the lru_cache answers, or
\* WHOISValidator.is_domain_expired asks the WHOIS server
Whois(i) ==
    /\ fd_tasks[i].pc = "whois"
    /\ LET t == fd_tasks[i]
           known == {e \in whois_cache : e[1] = t.domain}
       IN  \E expired \in BOOLEAN :
               /\ (known # {} => <<t.domain, expired>> \in known)
               /\ whois_cache' = whois_cache \cup {<<t.domain, expired>>}
               /\ fd_tasks' =
                      [fd_tasks EXCEPT ![i] =
                          [t EXCEPT !.pc = "insert",
                                    !.whois_asked = (known = {}),
                                    !.expired = expired,
                                    !.is_valid = IsValid(TRUE, expired)]]
    /\ UNCHANGED << fd_config, fd_input, fd_pos, valid_domains, invalid_domains,
                    results_adguard, results_hosts, fd_out_adguard, fd_out_hosts,
                    fd_pc >>

\* the second 'with self.lock' of _is_domain_valid, and the return of
\* validate_rule
LockedInsert(i) ==
    /\ fd_tasks[i].pc = "insert"
    /\ LET t == fd_tasks[i]
       IN  /\ valid_domains' =
                  IF t.is_valid THEN valid_domains \cup {t.domain} ELSE valid_domains
           /\ invalid_domains' =
                  IF t.is_valid THEN invalid_domains ELSE invalid_domains \cup {t.domain}
           /\ fd_tasks' = [fd_tasks EXCEPT ![i] = RuleResult(t, t.is_valid)]
    /\ UNCHANGED << fd_config, fd_input, fd_pos, whois_cache, results_adguard,
                    results_hosts, fd_out_adguard, fd_out_hosts, fd_pc >>

\* one turn of 'for future in as_completed(futures)': _handle_result
HandleResult(i) ==
    /\ fd_pc = "batch"
    /\ fd_tasks[i].pc = "done"
    /\ results_adguard' =
           IF fd_tasks[i].adguard_rule # <<>>
           THEN results_adguard \cup {fd_tasks[i].adguard_rule} ELSE results_adguard
    /\ results_hosts' = results_hosts \cup fd_tasks[i].hosts_rules
    /\ fd_tasks' = [fd_tasks EXCEPT ![i] = [@ EXCEPT !.pc = "handled"]]
    /\ UNCHANGED << fd_config, fd_input, fd_pos, valid_domains, invalid_domains,
                    whois_cache, fd_out_adguard, fd_out_hosts, fd_pc >>

\* future.result() raises what validate_rule raised: process ends, main logs
\* and exits with status 1, nothing is saved
ResultRaises(i) ==
    /\ fd_pc = "batch"
    /\ fd_tasks[i].pc = "raised"
    /\ fd_pc' = "failed"
    /\ UNCHANGED << fd_config, fd_input, fd_pos, fd_tasks, valid_domains,
                    invalid_domains, whois_cache, results_adguard, results_hosts,
                    fd_out_adguard, fd_out_hosts >>

\* a loop over the batches that does not wait for the futures of the batch
EndBatchEarly ==
    /\ fd_pc = "batch"
    /\ fd_pc' = "read"
    /\ UNCHANGED << fd_config, fd_input, fd_pos, fd_tasks, valid_domains,
                    invalid_domains, whois_cache, results_adguard, results_hosts,
                    fd_out_adguard, fd_out_hosts >>

\* as_completed has handed out every future of the batch
EndBatch ==
    /\ fd_pc = "batch"
    /\ \A i \in 1..Len(fd_tasks) : fd_tasks[i].pc = "handled"
    /\ fd_pc' = "read"
    /\ UNCHANGED << fd_config, fd_input, fd_pos, fd_tasks, valid_domains,
                    invalid_domains, whois_cache, results_adguard, results_hosts,
                    fd_out_adguard, fd_out_hosts >>

\* _save_results: sorted(), without a key
SaveResults ==
    /\ fd_pc = "save"
    /\ fd_out_adguard' \in
           {p \in Orders(results_adguard) :
               \A i \in 1..Len(p), j \in 1..Len(p) : i < j => ~SeqLess(p[j], p[i])}
    /\ fd_out_hosts' \in
           {p \in Orders(results_hosts) :
               \A i \in 1..Len(p), j \in 1..Len(p) : i < j => ~SeqLess(p[j], p[i])}
    /\ fd_pc' = "saved"
    /\ UNCHANGED << fd_config, fd_input, fd_pos, fd_tasks, valid_domains,
                    invalid_domains, whois_cache, results_adguard, results_hosts >>

----------------------------------------------------------------------------
(* clash.py: convert_adguard_rule, generate_ads_yaml *)

VARIABLES
    clash_input,      \* adguard_rules: the lines of dns.txt
    clash_next,       \* the index of the next line to convert
    converted_rules,  \* converted_rules
    ads_yaml,         \* the rules of the payload of ads.yaml on disk
    clash_pc          \* where generate_ads_yaml stands

clash_vars == << clash_input, clash_next, converted_rules, ads_yaml, clash_pc >>

RECURSIVE CharLen(_)
\* len(s), exact below 3: a token has one, two or at least three characters
CharLen(s) ==
    IF s = <<>> THEN 0
    ELSE (IF s[1] \in {" ", "!", "#", ".", "-", "*", "/", "^", "]", "1"} THEN 1
          ELSE IF s[1] \in {"||", "@@", "::", "qq"} THEN 2
          ELSE 3) + CharLen(Tail(s))

\* re.sub(r'^\|\|(.*?)\^?$', r'\1', rule) for a rule that starts with '||':
\* the text after '||' without one '^' at its end
AfterBars(rule) ==
    LET body == Tail(rule)
    IN  IF body # <<>> /\ body[Len(body)] = "^" THEN Take(body, Len(body) - 1)
        ELSE body

\* the empty string convert_adguard_rule returns
NoRule == [type |-> "", body |-> <<>>, action |-> ""]

\* convert_adguard_rule: type, domain or pattern, action of the rule
\* 'type,body,action'; a comment is '# body'
ConvertAdguardRule(adguard_rule) ==
    LET original_rule == Strip(adguard_rule)
        is_whitelist == StartsWith(original_rule, "@@")
        rule == IF is_whitelist THEN Tail(original_rule) ELSE original_rule
        action == IF is_whitelist THEN "DIRECT" ELSE "REJECT"
        plain == Strip(BeforeDollar(rule))
    IN  IF StartsWith(original_rule, "!")
        THEN [type |-> "#", body |-> Strip(Tail(original_rule)), action |-> ""]
        ELSE IF original_rule = <<>> THEN NoRule
        ELSE IF original_rule[1] = "[Adblock" /\ original_rule[Len(original_rule)] = "]"
        THEN NoRule
        ELSE IF StartsWith(rule, "||")
        THEN [type |-> "DOMAIN-SUFFIX", body |-> Strip(BeforeDollar(AfterBars(rule))),
              action |-> action]
        ELSE IF Len(rule) >= 2 /\ rule[1] = "*" /\ rule[2] = "."
        THEN [type |-> "DOMAIN-SUFFIX", body |-> Strip(BeforeDollar(Drop(rule, 2))),
              action |-> action]
        ELSE IF Len(rule) >= 2 /\ rule[1] = "/" /\ rule[Len(rule)] = "/"
        THEN IF CharLen(SubSeq(rule, 2, Len(rule) - 1)) < 3 THEN NoRule
             ELSE [type |-> "URL-REGEX", body |-> SubSeq(rule, 2, Len(rule) - 1),
                   action |-> action]
        ELSE IF plain # <<>> /\ \A i \in 1..Len(plain) : plain[i] \in WordDotDashToks
        THEN IF \E i \in 1..Len(plain) : plain[i] \in {"."} \cup Ip4Toks
             THEN [type |-> "DOMAIN-SUFFIX", body |-> plain, action |-> action]
             ELSE [type |-> "DOMAIN", body |-> plain, action |-> action]
        ELSE NoRule

\* set(converted_rules): sorted() puts distinct strings into one order, so
\* the payload of ads.yaml is given by this set
UniqueRules(rules) == {rules[i] : i \in 1..Len(rules)}

ClashStart ==
    /\ clash_input \in SeqsUpTo(ClashLineUniverse, MaxClashLines)
    /\ clash_next = 1
    /\ converted_rules = <<>>
    /\ ads_yaml = {}
    /\ clash_pc = "convert"

\* one turn of 'for line in adguard_rules': a rule that is not empty is kept
ConvertLine ==
    /\ clash_pc = "convert"
    /\ clash_next <= Len(clash_input)
    /\ LET converted == ConvertAdguardRule(clash_input[clash_next])
       IN  converted_rules' =
               IF converted # NoRule THEN Append(converted_rules, converted)
               ELSE converted_rules
    /\ clash_next' = clash_next + 1
    /\ UNCHANGED << clash_input, ads_yaml, clash_pc >>

\* the rules are made unique, sorted and written to ads.yaml
WriteYaml ==
    /\ clash_pc = "convert"
    /\ clash_next > Len(clash_input)
    /\ ads_yaml' = UniqueRules(converted_rules)
    /\ clash_pc' = "written"
    /\ UNCHANGED << clash_input, clash_next, converted_rules >>

----------------------------------------------------------------------------
(* The programs, each run on its own *)

MergeIdle ==
    /\ config = DEFAULT_CONFIG
    /\ files = [f \in FileNames |-> <<>>]
    /\ unreadable = {}
    /\ pending = {}
    /\ black_rules = {}
    /\ white_rules = {}
    /\ disk_adblock = <<>>
    /\ disk_allow = <<>>
    /\ new_adblock = <<>>
    /\ new_allow = <<>>
    /\ merge_pc = "idle"

FaIdle ==
    /\ allow_file = <<>>
    /\ dns_file = <<>>
    /\ whitelist = {}
    /\ filtered = <<>>
    /\ fa_next = 1
    /\ fa_pc = "idle"

DnsIdle ==
    /\ dns_max_workers = 6
    /\ dns_now = 0
    /\ dns_store = "database"
    /\ dns_cache = [d \in DnsDomains |-> NoRow]
    /\ dns_tasks = <<>>
    /\ dns_pc = "idle"

FdIdle ==
    /\ fd_config = [validation |-> TRUE, whois |-> FALSE, batch_size |-> BatchSize]
    /\ fd_input = <<>>
    /\ fd_pos = 0
    /\ fd_tasks = <<>>
    /\ valid_domains = {}
    /\ invalid_domains = {}
    /\ whois_cache = {}
    /\ results_adguard = {}
    /\ results_hosts = {}
    /\ fd_out_adguard = <<>>
    /\ fd_out_hosts = <<>>
    /\ fd_pc = "idle"

ClashIdle ==
    /\ clash_input = <<>>
    /\ clash_next = 1
    /\ converted_rules = <<>>
    /\ ads_yaml = {}
    /\ clash_pc = "idle"

PfIdle ==
    /\ rule_file = <<>>
    /\ tmp_file = [exists |-> FALSE, lines |-> <<>>]
    /\ pf_lines = <<>>
    /\ pf_next = 1
    /\ valid_lines = <<>>
    /\ pf_batch = <<>>
    /\ pf_invalid = {}
    /\ pf_pc = "idle"

DlIdle ==
    /\ dl_lists = [adblock |-> <<>>, allow |-> <<>>]
    /\ dl_mod = [k \in {"adblock", "allow"} |-> "absent"]
    /\ dl_saved = [p \in SavePaths |-> "absent"]
    /\ dl_temp = [p \in SavePaths |-> "absent"]
    /\ dl_todo = <<>>
    /\ dl_call = NoCall
    /\ dl_pc = "idle"

vars == << merge_vars, fa_vars, dns_vars, fd_vars, clash_vars, pf_vars, dl_vars >>

MergeInit == MergeStart /\ FaIdle /\ DnsIdle /\ FdIdle /\ ClashIdle /\ PfIdle /\ DlIdle

MergeNext ==
    \/ BackupFiles /\ UNCHANGED << fa_vars, dns_vars, fd_vars, clash_vars, pf_vars, dl_vars >>
    \/ (\E f \in FileNames : ProcessSingleFile(f)) /\ UNCHANGED << fa_vars, dns_vars, fd_vars, clash_vars, pf_vars, dl_vars >>
    \/ PostProcess /\ UNCHANGED << fa_vars, dns_vars, fd_vars, clash_vars, pf_vars, dl_vars >>
    \/ OpenAdblock /\ UNCHANGED << fa_vars, dns_vars, fd_vars, clash_vars, pf_vars, dl_vars >>
    \/ WriteAdblock /\ UNCHANGED << fa_vars, dns_vars, fd_vars, clash_vars, pf_vars, dl_vars >>
    \/ OpenAllow /\ UNCHANGED << fa_vars, dns_vars, fd_vars, clash_vars, pf_vars, dl_vars >>
    \/ WriteAllow /\ UNCHANGED << fa_vars, dns_vars, fd_vars, clash_vars, pf_vars, dl_vars >>
    \/ WriteFails /\ UNCHANGED << fa_vars, dns_vars, fd_vars, clash_vars, pf_vars, dl_vars >>

SpecMerge == MergeInit /\ [][MergeNext]_vars

FaInit == FaStart /\ MergeIdle /\ DnsIdle /\ FdIdle /\ ClashIdle /\ PfIdle /\ DlIdle

FaNext ==
    \/ LoadWhitelist /\ UNCHANGED << merge_vars, dns_vars, fd_vars, clash_vars, pf_vars, dl_vars >>
    \/ OpenFiltered /\ UNCHANGED << merge_vars, dns_vars, fd_vars, clash_vars, pf_vars, dl_vars >>
    \/ ProcessBlacklistLine /\ UNCHANGED << merge_vars, dns_vars, fd_vars, clash_vars, pf_vars, dl_vars >>
    \/ CloseFiltered /\ UNCHANGED << merge_vars, dns_vars, fd_vars, clash_vars, pf_vars, dl_vars >>

SpecFilterAd == FaInit /\ [][FaNext]_vars

DnsInit == DnsStart /\ MergeIdle /\ FaIdle /\ FdIdle /\ ClashIdle /\ PfIdle /\ DlIdle

DnsNext ==
    \/ InitCache /\ UNCHANGED << merge_vars, fa_vars, fd_vars, clash_vars, pf_vars, dl_vars >>
    \/ (\E i \in 1..Len(dns_tasks) : StartValidate(i)) /\ UNCHANGED << merge_vars, fa_vars, fd_vars, clash_vars, pf_vars, dl_vars >>
    \/ (\E i \in 1..Len(dns_tasks) : CacheLookup(i)) /\ UNCHANGED << merge_vars, fa_vars, fd_vars, clash_vars, pf_vars, dl_vars >>
    \/ (\E i \in 1..Len(dns_tasks) : CheckDomestic(i)) /\ UNCHANGED << merge_vars, fa_vars, fd_vars, clash_vars, pf_vars, dl_vars >>
    \/ (\E i \in 1..Len(dns_tasks) : CheckOverseas(i)) /\ UNCHANGED << merge_vars, fa_vars, fd_vars, clash_vars, pf_vars, dl_vars >>
    \/ (\E i \in 1..Len(dns_tasks) : CheckTimesOut(i)) /\ UNCHANGED << merge_vars, fa_vars, fd_vars, clash_vars, pf_vars, dl_vars >>
    \/ (\E i \in 1..Len(dns_tasks) : UpdateCache(i)) /\ UNCHANGED << merge_vars, fa_vars, fd_vars, clash_vars, pf_vars, dl_vars >>
    \/ DnsTick /\ UNCHANGED << merge_vars, fa_vars, fd_vars, clash_vars, pf_vars, dl_vars >>
    \/ EndMap /\ UNCHANGED << merge_vars, fa_vars, fd_vars, clash_vars, pf_vars, dl_vars >>

SpecDns == DnsInit /\ [][DnsNext]_vars

FdInit == FdStart /\ MergeIdle /\ FaIdle /\ DnsIdle /\ ClashIdle /\ PfIdle /\ DlIdle

FdNext ==
    \/ SubmitBatch /\ UNCHANGED << merge_vars, fa_vars, dns_vars, clash_vars, pf_vars, dl_vars >>
    \/ (\E i \in 1..Len(fd_tasks) : StartRule(i)) /\ UNCHANGED << merge_vars, fa_vars, dns_vars, clash_vars, pf_vars, dl_vars >>
    \/ (\E i \in 1..Len(fd_tasks) : LockedCheck(i)) /\ UNCHANGED << merge_vars, fa_vars, dns_vars, clash_vars, pf_vars, dl_vars >>
    \/ (\E i \in 1..Len(fd_tasks) : Query(i)) /\ UNCHANGED << merge_vars, fa_vars, dns_vars, clash_vars, pf_vars, dl_vars >>
    \/ (\E i \in 1..Len(fd_tasks) : QueryRaises(i)) /\ UNCHANGED << merge_vars, fa_vars, dns_vars, clash_vars, pf_vars, dl_vars >>
    \/ (\E i \in 1..Len(fd_tasks) : Whois(i)) /\ UNCHANGED << merge_vars, fa_vars, dns_vars, clash_vars, pf_vars, dl_vars >>
    \/ (\E i \in 1..Len(fd_tasks) : LockedInsert(i)) /\ UNCHANGED << merge_vars, fa_vars, dns_vars, clash_vars, pf_vars, dl_vars >>
    \/ (\E i \in 1..Len(fd_tasks) : HandleResult(i)) /\ UNCHANGED << merge_vars, fa_vars, dns_vars, clash_vars, pf_vars, dl_vars >>
    \/ (\E i \in 1..Len(fd_tasks) : ResultRaises(i)) /\ UNCHANGED << merge_vars, fa_vars, dns_vars, clash_vars, pf_vars, dl_vars >>
    \/ EndBatch /\ UNCHANGED << merge_vars, fa_vars, dns_vars, clash_vars, pf_vars, dl_vars >>
    \/ SaveResults /\ UNCHANGED << merge_vars, fa_vars, dns_vars, clash_vars, pf_vars, dl_vars >>

SpecFilterDns == FdInit /\ [][FdNext]_vars

ClashInit == ClashStart /\ MergeIdle /\ FaIdle /\ DnsIdle /\ FdIdle /\ PfIdle /\ DlIdle

ClashNext ==
    \/ ConvertLine /\ UNCHANGED << merge_vars, fa_vars, dns_vars, fd_vars, pf_vars, dl_vars >>
    \/ WriteYaml /\ UNCHANGED << merge_vars, fa_vars, dns_vars, fd_vars, pf_vars, dl_vars >>

SpecClash == ClashInit /\ [][ClashNext]_vars

PfInit == PfStart /\ MergeIdle /\ FaIdle /\ DnsIdle /\ FdIdle /\ ClashIdle /\ DlIdle

PfNext ==
    \/ ReadLines /\ UNCHANGED << merge_vars, fa_vars, dns_vars, fd_vars, clash_vars, dl_vars >>
    \/ LoopLine /\ UNCHANGED << merge_vars, fa_vars, dns_vars, fd_vars, clash_vars, dl_vars >>
    \/ ProcessBatch /\ UNCHANGED << merge_vars, fa_vars, dns_vars, fd_vars, clash_vars, dl_vars >>
    \/ BatchRaises /\ UNCHANGED << merge_vars, fa_vars, dns_vars, fd_vars, clash_vars, dl_vars >>
    \/ OpenTmp /\ UNCHANGED << merge_vars, fa_vars, dns_vars, fd_vars, clash_vars, dl_vars >>
    \/ WritePart /\ UNCHANGED << merge_vars, fa_vars, dns_vars, fd_vars, clash_vars, dl_vars >>
    \/ CloseTmp /\ UNCHANGED << merge_vars, fa_vars, dns_vars, fd_vars, clash_vars, dl_vars >>
    \/ ReplaceFile /\ UNCHANGED << merge_vars, fa_vars, dns_vars, fd_vars, clash_vars, dl_vars >>
    \/ Interrupt /\ UNCHANGED << merge_vars, fa_vars, dns_vars, fd_vars, clash_vars, dl_vars >>

SpecProcessFile == PfInit /\ [][PfNext]_vars

DlInit == DlStart /\ MergeIdle /\ FaIdle /\ DnsIdle /\ FdIdle /\ ClashIdle /\ PfIdle

DlNext ==
    \/ HandleLocalRules /\ UNCHANGED << merge_vars, fa_vars, dns_vars, fd_vars, clash_vars, pf_vars >>
    \/ CallSmartDownload /\ UNCHANGED << merge_vars, fa_vars, dns_vars, fd_vars, clash_vars, pf_vars >>
    \/ AttemptSucceeds /\ UNCHANGED << merge_vars, fa_vars, dns_vars, fd_vars, clash_vars, pf_vars >>
    \/ AttemptFails /\ UNCHANGED << merge_vars, fa_vars, dns_vars, fd_vars, clash_vars, pf_vars >>
    \/ AttemptSslError /\ UNCHANGED << merge_vars, fa_vars, dns_vars, fd_vars, clash_vars, pf_vars >>
    \/ TryFallback /\ UNCHANGED << merge_vars, fa_vars, dns_vars, fd_vars, clash_vars, pf_vars >>
    \/ GiveUp /\ UNCHANGED << merge_vars, fa_vars, dns_vars, fd_vars, clash_vars, pf_vars >>
    \/ EndDownloads /\ UNCHANGED << merge_vars, fa_vars, dns_vars, fd_vars, clash_vars, pf_vars >>

\* main runs on: a step that can be taken is taken (every request has a
\* timeout)
SpecDownload == DlInit /\ [][DlNext]_vars /\ WF_vars(DlNext)

----------------------------------------------------------------------------
(* merge.py: the claims *)

\* process_files run on the directory dir, its files visited in a fixed order
ProcessFilesResult(dir, cfg) ==
    LET r1 == ProcessFile("adblock01.txt", dir["adblock01.txt"], cfg, {}, {})
        r2 == ProcessFile("adblock02.txt", dir["adblock02.txt"], cfg, r1.black, r1.white)
        r3 == ProcessFile("allow01.txt", dir["allow01.txt"], cfg, r2.black, r2.white)
        r4 == ProcessFile("extra.rules", dir["extra.rules"], cfg, r3.black, r3.white)
    IN  PostProcessed(cfg, r4.black, r4.white)

\* _post_process has run
PostProcessDone ==
    merge_pc \in {"open_adblock", "write_adblock", "open_allow", "write_allow",
                  "done", "failed"}

\* C1: after post-processing under the default whitelist_priority policy no
\* entry of the allow set has an entry of the block set with the same domain
C1_NoAllowedDomainBlocked ==
    (PostProcessDone /\ config = DEFAULT_CONFIG)
        => Conflicts(black_rules, white_rules) = {}

\* C2: post-processing takes the block rule of a block/allow pair on the
\* same rule out of the block set and keeps the allow rule under
\* whitelist_priority, and takes the allow rule out and keeps the block rule
\* under blacklist_priority
C2_PolicyDecidesLoser ==
    [][(merge_pc = "files" /\ merge_pc' = "open_adblock") =>
        \A b \in black_rules, w \in white_rules :
            (StartsWith(w, "@@") /\ ~StartsWith(b, "!")
             /\ get_fingerprint(Drop(w, 1)) = get_fingerprint(b))
            => IF config.conflict_resolution = "whitelist_priority"
               THEN w \in white_rules' /\ b \notin black_rules'
               ELSE b \in black_rules' /\ w \notin white_rules']_vars

\* C4: the block and allow sets after post-processing are the same for every
\* order of the files (the visits of the run against the fixed order) and for
\* every rearrangement of the lines inside a file
C4_OrderIndependent ==
    merge_pc = "open_adblock" =>
        \A f \in FileNames : \A p \in SeqPermutations(files[f]) :
            LET r == ProcessFilesResult([files EXCEPT ![f] = p], config)
            IN  r.black = black_rules /\ r.white = white_rules

\* C5: the saved block file never holds two lines with the same fingerprint
\* (the same rule up to letter case and whitespace, or the same line twice)
C5_OneLinePerFingerprint ==
    merge_pc = "done" =>
        \A i \in 1..Len(disk_adblock), j \in 1..Len(disk_adblock) :
            i # j => get_fingerprint(disk_adblock[i]) # get_fingerprint(disk_adblock[j])

\* C9: at every point of the run each output file holds either the complete
\* previous content or the complete new content
C9_OutputsOldOrNew ==
    /\ disk_adblock = OldAdblock \/ (PostProcessDone /\ disk_adblock = new_adblock)
    /\ disk_allow = OldAllow \/ (PostProcessDone /\ disk_allow = new_allow)

\* a comment line or a list header
IsCommentOrHeader(line) ==
    StartsWith(Strip(line), "!") \/ StartsWith(Strip(line), "[Adblock")

\* C11: with the default configuration a comment line or a list header does
\* not stop its file: every rule line after it in a file that has been
\* processed is in the set _process_line puts it in
C11_CommentDoesNotStopFile ==
    (config = DEFAULT_CONFIG /\ merge_pc = "files") =>
        \A f \in FileNames \ (pending \cup unreadable) :
            \A i \in 1..Len(files[f]), j \in 1..Len(files[f]) :
                (i < j /\ IsCommentOrHeader(files[f][i])
                       /\ ~IsCommentOrHeader(files[f][j])) =>
                    LET r == ProcessLine(files[f][j], IsWhitelistFile(f, files[f]),
                                         config, {}, {})
                    IN  r.black \subseteq black_rules /\ r.white \subseteq white_rules

\* C12: with the default configuration an input file that cannot be read
\* does not end the run: process_files does not raise
C12_UnreadableFileOnlySkipped ==
    (config = DEFAULT_CONFIG /\ unreadable # {}) => merge_pc # "backup_failed"

\* C14: a line that begins with '@@' is never in the block set, and no string
\* is in both sets
C14_RoutedByKind ==
    /\ \A r \in black_rules : ~StartsWith(r, "@@")
    /\ black_rules \cap white_rules = {}

\* C16: the saved order is a function of the final set: _save_rules has one
\* possible content for each of the two files
C16_SavedOrderUnique ==
    PostProcessDone =>
        /\ Cardinality(SaveContents(config, black_rules)) = 1
        /\ Cardinality(SaveContents(config, white_rules)) = 1

\* C20: a hosts line whose first token is not 0.0.0.0, 127.0.0.1 or ::1
\* contributes nothing to the block set
C20_OnlyNullRouteHosts ==
    \A r \in black_rules :
        (Len(r) >= 2 /\ r[1] \in Ip4Toks /\ r[2] \in SpaceToks) =>
            r[1] \in {"0.0.0.0", "127.0.0.1", "::1"}

----------------------------------------------------------------------------
(* filter-ad.py: the claims *)

\* the allow rule @@||d^ of a bare lower-case domain d
IsPlainAllowRule(a) ==
    /\ Len(a) >= 4
    /\ a[1] = "@@" /\ a[2] = "||" /\ a[Len(a)] = "^"
    /\ \A i \in 3..(Len(a) - 1) : a[i] \in LowerAlphaToks \cup {"."}

\* C3: with an allow rule @@||d^ in the allow list the block rule ||d^ is not
\* written to the filtered output, and every block rule the whitelist check
\* does not match is written as it stands
C3_AllowedDomainFiltered ==
    fa_pc = "done" =>
        /\ \A i \in 1..Len(allow_file) :
               IsPlainAllowRule(allow_file[i])
                   => \A j \in 1..Len(filtered) : filtered[j] # Tail(allow_file[i])
        /\ \A i \in 1..Len(dns_file) :
               ~IsWhitelisted(dns_file[i], whitelist)
                   => \E j \in 1..Len(filtered) : filtered[j] = dns_file[i]

\* the number of leading labels to drop from the domain d to reach the domain
\* a; 0 when a is not a proper ancestor of d
LabelsBelow(d, a) ==
    IF /\ Len(a) >= 1 /\ Len(a) < Len(d)
       /\ d[Len(d) - Len(a)] = "."
       /\ Drop(d, Len(d) - Len(a)) = a
    THEN Cardinality(DotPositions(d)) - Cardinality(DotPositions(a))
    ELSE 0

\* the domain of a rule ||d^ or @@||d^
RuleDomain(r) ==
    LET a == IF StartsWith(r, "@@") THEN Tail(r) ELSE r
        b == IF StartsWith(a, "||") THEN Tail(a) ELSE a
    IN  IF b # <<>> /\ b[Len(b)] = "^" THEN Take(b, Len(b) - 1) ELSE b

\* C21: a block rule whose domain is a proper subdomain of an allowed domain,
\* and is not itself allowed, is removed from the filtered output exactly when
\* an allowed domain is reached by dropping at most 3 of its leading labels
C21_SubdomainDepthThree ==
    fa_pc = "done" =>
        LET allowed == {RuleDomain(allow_file[j]) : j \in
                            {k \in 1..Len(allow_file) : ~IsComment(allow_file[k])}}
        IN  \A i \in 1..Len(dns_file) :
                LET d == RuleDomain(dns_file[i])
                    removed == \A j \in 1..Len(filtered) : filtered[j] # dns_file[i]
                IN  (/\ StartsWith(dns_file[i], "||")
                     /\ \A k \in 1..Len(d) : d[k] \in LowerAlphaToks \cup {"."}
                     /\ d \notin allowed
                     /\ \E a \in allowed : LabelsBelow(d, a) >= 1)
                    => (removed <=> \E a \in allowed : LabelsBelow(d, a) \in 1..3)

\* C22: the key load_whitelist keeps for a rule is the lower-case domain of
\* the rule without its '@@', '||', '^' and '$...' decoration, whatever the
\* letter case and the decoration of the rule: ||Ads.example.com^ and
\* ads.example.com both give ads.example.com
C22_KeyIsLowerCaseDomain ==
    fa_pc # "load" =>
        whitelist =
            {Lower(RuleDomain(BeforeDollar(allow_file[j]))) : j \in
                 {k \in 1..Len(allow_file) : ~IsComment(allow_file[k])}}

----------------------------------------------------------------------------
(* dns.py: the claims *)

\* a call of validate_domain that is past its decision to query or not
DnsDecided(t) == t.pc \in {"overseas", "update", "done", "raised"}

\* the row the call saw was there and not expired
SawUnexpired(t) == t.seen_row.present /\ t.seen_row.expires_at >= t.seen_now

\* C8: validate_domain queries DNS servers exactly when the domain is not in
\* the allow-list and the cache had no unexpired row for it at the lookup; an
\* allow-listed domain is true without a query and without a look into the
\* cache; an unexpired row gives its stored verdict without a query; an
\* expired row is never a verdict, the domain is validated again
C8_QueriesIffNotAllowedNotCached ==
    \A i \in 1..Len(dns_tasks) :
        LET t == dns_tasks[i]
        IN  /\ DnsDecided(t) =>
                   (t.asked # {} <=> (t.domain \notin DnsWhitelist /\ ~SawUnexpired(t)))
            /\ (t.pc = "done" /\ t.domain \in DnsWhitelist) =>
                   (t.result /\ t.asked = {} /\ ~t.cache_read)
            /\ (t.pc = "done" /\ t.domain \notin DnsWhitelist /\ SawUnexpired(t)) =>
                   (t.result = AnyRow(t.seen_row) /\ t.asked = {} /\ t.from_cache)
            /\ t.from_cache => SawUnexpired(t)
            /\ (t.pc = "done" /\ t.cache_read /\ ~SawUnexpired(t)) =>
                   (t.asked = DomesticServers \cup OverseasServers /\ ~t.from_cache)

\* a call that found an expired row has asked the servers and returned
C8_ExpiredRowRevalidated ==
    \E i \in 1..Len(dns_tasks) :
        /\ dns_tasks[i].pc = "done"
        /\ dns_tasks[i].seen_row.present
        /\ dns_tasks[i].seen_row.expires_at < dns_tasks[i].seen_now
        /\ dns_tasks[i].asked # {}

\* C13: a cache database that is corrupt is never fatal: no error leaves the
\* construction of the validator
C13_CorruptCacheNotFatal == dns_store = "corrupt" => dns_pc # "init_raised"

\* C18: once the domestic servers have given an answer no server of the
\* overseas group is queried in that validation
C18_NoQueryAfterAnswer ==
    \A i \in 1..Len(dns_tasks) :
        (dns_tasks[i].pc \in {"update", "done"} /\ dns_tasks[i].domestic_ok) =>
            dns_tasks[i].asked \cap OverseasServers = {}

\* the input lines process_file is to retain, stripped, in the order of
\* the input: all but the lines whose domain validated false
Retained ==
    LET keep == {i \in 1..Len(pf_lines) : i \notin pf_invalid}
        Nth(n) == CHOOSE i \in keep : Cardinality({j \in keep : j <= i}) = n
    IN  [n \in 1..Cardinality(keep) |-> Strip(pf_lines[Nth(n)])]

\* C25: the lines written back are the stripped input lines without the
\* rules whose domain validated false, each as often as the input holds it:
\* no line is added, lost or duplicated; only candidate rules are removed
C25_OnlyInvalidRulesRemoved ==
    pf_pc = "done" =>
        /\ \A i \in pf_invalid :
               LET line == Strip(pf_lines[i])
               IN  /\ line # <<>> /\ line[1] \notin {"!", "#", "@@"}
                   /\ IsCandidate(ExtractDomain(line))
        /\ Len(rule_file) = Len(Retained)
        /\ \A l \in {Retained[n] : n \in 1..Len(Retained)}
                     \cup {rule_file[n] : n \in 1..Len(rule_file)} :
               Cardinality({n \in 1..Len(rule_file) : rule_file[n] = l})
                   = Cardinality({n \in 1..Len(Retained) : Retained[n] = l})

\* C26: the rule file keeps the lines it had at the start until, in the one
\* step that ends process_file, it gets the whole filtered text: no step
\* before it, no interrupt, no exception and no write to the temporary file
\* changes the rule file
C26_RuleFileOldOrNew ==
    [][rule_file' # rule_file =>
           /\ pf_pc = "replace" /\ pf_pc' = "done"
           /\ rule_file' = Written(valid_lines)]_vars

\* the run is interrupted while a part of the filtered text is in the
\* temporary file, after a rule was removed
C26_InterruptedWhileWriting ==
    /\ pf_pc = "interrupted"
    /\ pf_invalid # {}
    /\ tmp_file.exists
    /\ tmp_file.lines # <<>>
    /\ tmp_file.lines # Written(valid_lines)
    /\ rule_file # Written(valid_lines)

\* C28: the retained lines stand in the rewritten file in the order they
\* have in the input
C28_RetainedInInputOrder ==
    (pf_pc = "done" /\ valid_lines # <<>>) => rule_file = Retained

----------------------------------------------------------------------------
(* filter-dns.py: the claims *)

\* a call of _is_domain_valid that asked the resolvers and is past them
FdAnswered(t) == t.pc \in {"whois", "insert", "done", "handled", "raised"} /\ ~t.from_cache /\ t.asked # {}

\* the verdict the call has returned or will return; a call that raised
\* returns none
ReturnsTrue(t) == t.pc \in {"insert", "done", "handled"} /\ t.is_valid

InFlight(t) == t.pc \in {"query", "whois", "insert"}

\* C7: at most one validation of a domain is in flight at a time
C7_OneValidationInFlightPerDomain ==
    \A i \in 1..Len(fd_tasks), j \in 1..Len(fd_tasks) :
        (i # j /\ InFlight(fd_tasks[i]) /\ InFlight(fd_tasks[j])) =>
            fd_tasks[i].domain # fd_tasks[j].domain

\* C10: validating a domain never raises and never ends the batch or the run
C10_ValidationNeverRaises ==
    /\ \A i \in 1..Len(fd_tasks) : fd_tasks[i].pc # "raised"
    /\ fd_pc # "failed"

\* the rules process leaves in results['adguard'] and results['hosts'] for
\* the input lines when valid is the set of the domains that validate
ExpectedResults(lines, cfg, valid) ==
    LET rules == {Strip(lines[k]) : k \in 1..Len(lines)}
        kept == {l \in rules : l # <<>> /\ ~Excluded(l)}
        ad == {l \in kept : ParseAdguard(l) # <<>>
                            /\ (cfg.validation => ParseAdguard(l) \in valid)}
        ho == {l \in kept : ParseAdguard(l) = <<>> /\ ParseHosts(l).ok
                            /\ (cfg.validation => ParseHosts(l).domain \in valid)}
        hosts == {ParseHosts(l).ip \o <<" ">> \o ParseHosts(l).domain : l \in ho}
    IN  [adguard |-> ad \cup hosts, hosts |-> hosts]

\* the lines of a file
Lines(file) == {file[k] : k \in 1..Len(file)}

C17_ResultsSameForEveryInterleaving ==
    (fd_pc = "saved" /\ valid_domains \cap invalid_domains = {}) =>
        LET e == ExpectedResults(fd_input, fd_config, valid_domains)
        IN  /\ Lines(fd_out_adguard) = e.adguard
            /\ Lines(fd_out_hosts) = e.hosts
            /\ Len(fd_out_adguard) = Cardinality(e.adguard)
            /\ Len(fd_out_hosts) = Cardinality(e.hosts)

\* two rules of one domain are saved, one validated by a query and one by the
\* cache the other worker filled
C17_SecondRuleFromCache ==
    /\ fd_pc = "saved"
    /\ valid_domains \cap invalid_domains = {}
    /\ Len(fd_out_adguard) = 2
    /\ \E i \in 1..Len(fd_tasks), j \in 1..Len(fd_tasks) :
           /\ fd_tasks[i].from_cache /\ fd_tasks[i].is_valid
           /\ ~fd_tasks[j].from_cache /\ fd_tasks[j].asked # {}
           /\ fd_tasks[i].domain = fd_tasks[j].domain

\* the lines of the first n lines of the input that go into batches
Batched(n) ==
    SelectSeq([k \in 1..n |-> Strip(fd_input[k])],
              LAMBDA l : l # <<>> /\ ~Excluded(l))

\* C24: the batches are cut from the input in file order, each of at most
\* batch_size lines that are not excluded; no line of the next batch is read
\* or submitted before the result of every line of the batch is folded into
\* the result sets; the result sets are written only after the last batch is
\* folded
C24_BatchesInSequence ==
    [][/\ (fd_pc' = "batch") =>
              LET all == Batched(fd_pos')
                  n == Len(fd_tasks')
              IN  /\ n >= 1 /\ n <= fd_config.batch_size /\ n <= Len(all)
                  /\ (Len(all) - n) % fd_config.batch_size = 0
                  /\ \A i \in 1..n : fd_tasks'[i].line = all[Len(all) - n + i]
       /\ (fd_pos' # fd_pos \/ (fd_pc' = "batch" /\ fd_pc # "batch")) =>
              \A i \in 1..Len(fd_tasks) : fd_tasks[i].pc = "handled"
       /\ (fd_pc' = "saved" \/ fd_out_adguard' # fd_out_adguard
                            \/ fd_out_hosts' # fd_out_hosts) =>
              /\ fd_pos = Len(fd_input)
              /\ \A i \in 1..Len(fd_tasks) : fd_tasks[i].pc = "handled"
              /\ fd_pc = "save"]_vars

\* the second batch is in the pool and the rule of the first batch is in the
\* result set
C24_SecondBatchSubmitted ==
    /\ fd_pc = "batch"
    /\ fd_config.batch_size = 1
    /\ Len(Batched(fd_pos)) = 2
    /\ results_adguard # {}
    /\ \E i \in 1..Len(fd_tasks) : fd_tasks[i].pc = "queued"

\* C27: the cache sets valid_domains and invalid_domains are disjoint, and
\* the rules of one domain get the same verdict, in every state
C27_OneVerdictPerDomain ==
    /\ valid_domains \cap invalid_domains = {}
    /\ \A i \in 1..Len(fd_tasks), j \in 1..Len(fd_tasks) :
           (/\ fd_tasks[i].pc \in {"done", "handled"}
            /\ fd_tasks[j].pc \in {"done", "handled"}
            /\ fd_tasks[i].kind # "none"
            /\ fd_tasks[i].domain = fd_tasks[j].domain)
           => fd_tasks[i].is_valid = fd_tasks[j].is_valid

----------------------------------------------------------------------------
(* clash.py: the claims *)

\* the domain D of a line '||D<rest>' or '*.D<rest>' whose <rest> is empty or
\* begins with '^' or '$', <<>> for a line of another form
DomainOfLine(line) ==
    LET body == IF StartsWith(line, "||") THEN Tail(line)
                ELSE IF Len(line) >= 2 /\ line[1] = "*" /\ line[2] = "." THEN Drop(line, 2)
                ELSE <<>>
        run == RunLen(body, WordDotDashToks)
    IN  IF run >= 1 /\ (Len(body) = run \/ body[run + 1] \in {"^"} \cup DollarToks)
        THEN Take(body, run) ELSE <<>>

\* C19: the domain extracted from a line '||D<rest>' or '*.D<rest>' is D, and
\* holds neither '^' nor a '$'
C19_ExtractedDomainIsD ==
    \A k \in 1..(clash_next - 1) :
        LET line == Strip(clash_input[k])
            r == ConvertAdguardRule(clash_input[k])
        IN  DomainOfLine(line) # <<>> =>
                /\ r \in {converted_rules[i] : i \in 1..Len(converted_rules)}
                /\ r.body = DomainOfLine(line)
                /\ \A i \in 1..Len(r.body) : r.body[i] \notin {"^"} \cup DollarToks

\* C23: a line '@@'+r, r neither a comment nor a header, is converted to what
\* r is converted to with the action DIRECT, and is rejected exactly when r is
\* rejected: ads.yaml holds exactly these rules
C23_AllowParsedAsBlock ==
    clash_pc = "written" =>
        LET Expected(line) ==
                LET r == Tail(Strip(line))
                    c == ConvertAdguardRule(r)
                IN  IF StartsWith(Strip(line), "@@") /\ c.type # "#"
                    THEN IF c = NoRule THEN NoRule ELSE [c EXCEPT !.action = "DIRECT"]
                    ELSE ConvertAdguardRule(line)
        IN  ads_yaml = {Expected(clash_input[i]) : i \in 1..Len(clash_input)} \ {NoRule}

----------------------------------------------------------------------------
(* dl.py: the claims *)

\* C29: after handle_local_rules and download_rules, whether the downloads
\* succeed or fail, ./tmp/adblock01.txt holds what ./data/mod/adblock.txt
\* holds and ./tmp/allow01.txt what ./data/mod/whitelist.txt holds
C29_LocalCopiesSurvive ==
    dl_pc = "done" =>
        /\ dl_saved[<<"adblock", 1>>] = dl_mod["adblock"]
        /\ dl_saved[<<"allow", 1>>] = dl_mod["allow"]

\* C30: a call of smart_download makes at most as many attempts on a URL as
\* the rule of its domain gives retries, an SSL failure being one of them,
\* calls itself at most once, for the fallback; it returns True only with
\* the whole download at save_path and no temporary file, and False
\* otherwise; every call returns, and main comes to its end
C30_BoundedAttempts ==
    /\ [](/\ dl_call.made <= DomainRule(dl_call.url).retries
          /\ dl_call.made = dl_call.attempt + (IF dl_call.ret = "true" THEN 1 ELSE 0)
          /\ dl_call.depth <= 1
          /\ dl_pc = "returned" =>
                 /\ dl_call.ret \in {"true", "false"}
                 /\ dl_call.ret = "true" =>
                        /\ dl_saved[dl_call.save_path] = "download"
                        /\ dl_temp[dl_call.save_path] = "absent"
                 /\ dl_call.ret = "false" =>
                        /\ dl_saved[dl_call.save_path] = "empty"
                        /\ dl_call.made = DomainRule(dl_call.url).retries)
    /\ <>(dl_pc = "done")

\* a call gives up after the retries on its URL and on the fallback, an SSL
\* failure among them, and leaves a part of a download in the temporary file
C30_GaveUpAfterFallback ==
    /\ dl_pc = "returned"
    /\ dl_call.ret = "false"
    /\ dl_call.depth = 1
    /\ dl_call.made = MAX_RETRIES
    /\ ~dl_call.verify_ssl
    /\ dl_temp[dl_call.save_path] = "partial"

====
